---- MODULE Spec2Model ----
(***************************************************************************)
(* Model of the problem-3 performance demo: the two-tier CacheService, the *)
(* search cache key of SearchService, the PerformanceMonitor ring buffer   *)
(* and the alert evaluation of MonitoringDashboard.                        *)
(*                                                                         *)
(* Three specifications share the module.  SpecCache runs the cache        *)
(* service, SpecKey applies _create_cache_key to pairs of requests and     *)
(* SpecMon runs the monitor together with the dashboard's update cycle.    *)
(* Each leaves the variables of the other two components untouched.        *)
(*                                                                         *)
(* Times are seconds.  Clocks advance in steps of TickStep seconds; an     *)
(* operation is taken to complete without the clock advancing.             *)
(***************************************************************************)
EXTENDS Integers, Sequences, FiniteSets, TLC

VARIABLES
    \* ---- CacheService (services/cache_service.py)
    now,            \* time.time()
    initialized,    \* initialize() has run (application startup)
    redis_client,   \* TRUE: a client object, FALSE: None
    redis_db,       \* the shared backend: full key -> [data, expires_at]
    local_cache,    \* key -> [data, expires_at]
    cache_stats,    \* hits, misses, sets, deletes, errors
    nops,           \* number of operations called so far
    nGets,          \* history: number of get calls
    nReturned,      \* history: number of get calls that returned a value
    invalidated,    \* history: keys matched by a completed delete_pattern
                    \*          and not set again since
    last,           \* history: the call that completed last
    \* ---- SearchService._create_cache_key (services/search_service.py)
    r1, r2,         \* the two ProductSearchRequest objects last keyed
    key1, key2,     \* their cache keys
    \* ---- PerformanceMonitor (core/monitoring.py)
    mnow,           \* time.time() of the monitor's process
    utc_offset,     \* seconds the process's local time is ahead of UTC
    metrics,        \* deque(maxlen) of PerformanceMetric
    endpoint_stats, \* endpoint -> running totals
    mon_cache_stats,\* PerformanceMonitor.cache_stats: cache type -> hits
    error_rates,    \* endpoint -> errors / total_requests, as <<num, den>>
    throughput,     \* endpoint -> requests of the last minute / 60, as <<num, den>>
    database_performance,
    memory_usage,   \* samples of _monitor_system_resources
    cpu_usage,
    start_time,
    last_cleanup,
    nrec,           \* history: number of record_request calls
    sinceRebuild,   \* history: ... since construction, the last reset or cleanup
    nsamples,       \* history: number of resource samples taken
    \* ---- MonitoringDashboard (dashboard/monitoring_dashboard.py)
    dashboard_data,
    \* ---- MonitoringDashboard._determine_system_status, called on its own
    status_alerts,  \* the alert list it was last given
    status_result,  \* what it returned ("" before the first call)
    \* ---- MonitoringDashboard.start_monitoring_loop
    dash_loop,      \* where the loop is: "update" or "sleep"
    cycle,          \* history: the update cycles run, and the last one's fault
    \* ---- the data store behind SearchService and AnalyticsService
    db_products,    \* the products table, in the order the search sorts it
    db_users,       \* number of rows of the users table
    store_call,     \* history: the service call that completed last
    \* ---- CacheService.get_or_set
    gos,            \* history: the get_or_set call that completed last
    \* ---- the three background tasks
    tasks,          \* task |-> where its loop stands
    \* ---- PerformanceMonitor.reset_metrics, statement by statement
    reset_pc,       \* statements of the running reset_metrics done (0: none runs)
    observed,       \* history: what the last read by another task saw
    \* ---- RateLimiter of the API gateway (problem-2/api-gateway/main.py)
    rl,             \* the clock, the Redis counter, the call in flight, the answers
    \* ---- routes of the API gateway behind authentication
    auth,
    \* ---- task endpoints (problem-1/app/api/v1/endpoints/tasks.py)
    owner,
    \* ---- CacheService.get_stats
    stats_read,
    \* ---- CacheService calls suspended at their Redis round trip
    race

cacheVars == <<now, initialized, redis_client, redis_db, local_cache,
               cache_stats, nops, nGets, nReturned, invalidated, last>>

keyVars == <<r1, r2, key1, key2>>

monVars == <<mnow, utc_offset, metrics, endpoint_stats, mon_cache_stats, error_rates,
             throughput, database_performance, memory_usage, cpu_usage, start_time,
             last_cleanup, nrec, sinceRebuild, nsamples>>

dashVars == <<dashboard_data>>

statusVars == <<status_alerts, status_result>>

loopVars == <<dash_loop, cycle>>

storeVars == <<db_products, db_users, store_call>>

gosVars == <<gos>>

taskVars == <<tasks>>

resetVars == <<reset_pc, observed>>

lateVars == <<resetVars, rl, auth, owner, stats_read, race>>

extVars == <<statusVars, loopVars, storeVars, gosVars, taskVars, lateVars>>

vars == <<cacheVars, keyVars, monVars, dashVars, extVars>>

(***************************************************************************)
(* Bounds of the model and constants of the program.                       *)
(***************************************************************************)
MaxOps == 3
MaxTicks == 2
TickStep == 150

CACHE_DEFAULT_TTL == 3600
CACHE_SHORT_TTL == 300
COMPRESS_THRESHOLD == 1024

Min(a, b) == IF a <= b THEN a ELSE b
Max(a, b) == IF a >= b THEN a ELSE b

(***************************************************************************)
(* Keys are sequences of tokens, so that the backend's glob match of       *)
(* KEYS is computed rather than assumed.                                   *)
(***************************************************************************)
CACHE_PREFIX == <<"perf_demo">>

Keys == { <<"product", ":", "1">>, <<"user", ":", "1">> }
Patterns == { <<"product", ":", "*">>, <<"user", ":", "*">> }
Values == { "v1", "v2" }
None == "None"

\* ttl arguments: 0 stands for both None and 0 (falsy), then one value below
\* and one above CACHE_SHORT_TTL.
Ttls == { 0, CACHE_SHORT_TTL - TickStep, CACHE_SHORT_TTL + TickStep }

\* len() of the JSON text of a value
SerializedSize(v) == IF v = "v1" THEN 100 ELSE 2000

\* json.dumps / json.loads and gzip.compress / gzip.decompress
JsonDumps(v) == <<"json", v>>
JsonLoads(t) == t[2]
GzipCompress(t) == <<"gz">> \o t
GzipDecompress(z) == Tail(z)

\* The stored bytes: prefix is the b"gzip:" tag or empty.
_serialize(v) ==
    LET serialized == JsonDumps(v)
    IN  IF SerializedSize(v) > COMPRESS_THRESHOLD
        THEN [prefix |-> "gzip:", body |-> GzipCompress(serialized)]
        ELSE [prefix |-> "", body |-> serialized]

_deserialize(d) ==
    LET data == IF d.prefix = "gzip:" THEN GzipDecompress(d.body) ELSE d.body
    IN  JsonLoads(data)

_get_cache_key(key) == CACHE_PREFIX \o <<":">> \o key

RECURSIVE GlobMatch(_, _)
GlobMatch(p, s) ==
    IF p = <<>> THEN s = <<>>
    ELSE IF Head(p) = "*"
         THEN GlobMatch(Tail(p), s) \/ (s # <<>> /\ GlobMatch(p, Tail(s)))
         ELSE s # <<>> /\ Head(p) = Head(s) /\ GlobMatch(Tail(p), Tail(s))

\* dict helpers
Put(d, k, v) == [x \in DOMAIN d \cup {k} |-> IF x = k THEN v ELSE d[x]]
Del(d, ks) == [x \in DOMAIN d \ ks |-> d[x]]
EmptyDict == [x \in {} |-> 0]

(***************************************************************************)
(* The shared backend (Redis), with its own expiry.                        *)
(***************************************************************************)
RedisLive(fk) == fk \in DOMAIN redis_db /\ redis_db[fk].expires_at > now
RedisGet(fk) == redis_db[fk].data
RedisSetex(db, fk, ttl, data) == Put(db, fk, [data |-> data, expires_at |-> now + ttl])
RedisKeys(pattern) == { fk \in DOMAIN redis_db : RedisLive(fk) /\ GlobMatch(pattern, fk) }

\* ttl = ttl or settings.CACHE_DEFAULT_TTL
EffectiveTtl(ttl) == IF ttl = 0 THEN CACHE_DEFAULT_TTL ELSE ttl

NoCall == [op |-> "none", key |-> <<>>, keys |-> {}, value |-> None,
           result |-> None, count |-> 0,
           fault |-> FALSE, raised |-> FALSE, errors_before |-> 0, src |-> "none",
           after_set |-> None, after_mode |-> "none", reached_redis |-> FALSE]

CacheInit ==
    /\ now = 0
    /\ initialized = FALSE
    /\ redis_client = FALSE
    /\ redis_db = EmptyDict
    /\ local_cache = EmptyDict
    /\ cache_stats = [hits |-> 0, misses |-> 0, sets |-> 0, deletes |-> 0, errors |-> 0]
    /\ nops = 0
    /\ nGets = 0
    /\ nReturned = 0
    /\ invalidated = {}
    /\ last = NoCall

(***************************************************************************)
(* ProductSearchRequest and the search cache key.  An Optional field is a  *)
(* sequence of length 0 (None) or 1; a list is a sequence; a dict is the   *)
(* sequence of its (key, value) items in insertion order, as Python keeps  *)
(* it.                                                                     *)
(***************************************************************************)
Digit == <<"0", "1", "2", "3", "4", "5", "6", "7", "8", "9">>

\* str(n) for an int n >= 0
RECURSIVE IntStr(_)
IntStr(n) == IF n < 10 THEN Digit[n + 1] ELSE IntStr(n \div 10) \o Digit[(n % 10) + 1]

BoolStr(b) == IF b THEN "True" ELSE "False"

\* repr() of a str
Repr(x) == "'" \o x \o "'"

\* sep.join(parts)
RECURSIVE Join(_, _)
Join(sep, parts) ==
    IF parts = <<>> THEN ""
    ELSE IF Len(parts) = 1 THEN parts[1]
    ELSE parts[1] \o sep \o Join(sep, Tail(parts))

\* str() of a list of str and of a dict of str to str
ListStr(l) == "[" \o Join(", ", [i \in 1..Len(l) |-> Repr(l[i])]) \o "]"
DictStr(d) == "{" \o Join(", ", [i \in 1..Len(d) |-> Repr(d[i][1]) \o ": " \o Repr(d[i][2])]) \o "}"

\* str(x or "") for an Optional[int] and an Optional[str]
IntOrEmpty(o) == IF o = <<>> \/ o[1] = 0 THEN "" ELSE IntStr(o[1])
StrOrEmpty(o) == IF o = <<>> THEN "" ELSE o[1]
\* str(x or []) and str(x or {})
ListOrEmpty(o) == IF o = <<>> \/ o[1] = <<>> THEN "[]" ELSE ListStr(o[1])
DictOrEmpty(o) == IF o = <<>> \/ o[1] = <<>> THEN "{}" ELSE DictStr(o[1])

_create_cache_key(request) ==
    Join(":", << "search",
                 request.query,
                 IntOrEmpty(request.category_id),
                 StrOrEmpty(request.brand),
                 IntOrEmpty(request.min_price),
                 IntOrEmpty(request.max_price),
                 IntOrEmpty(request.min_rating),
                 BoolStr(request.in_stock_only),
                 BoolStr(request.featured_only),
                 ListOrEmpty(request.tags),
                 DictOrEmpty(request.attributes),
                 request.sort_by,
                 request.sort_order,
                 IntStr(request.page),
                 IntStr(request.size) >>)

\* ProductSearchRequest(query=...) with every other field at its default
DefaultRequest(query) ==
    [query |-> query, category_id |-> <<>>, brand |-> <<>>, min_price |-> <<>>,
     max_price |-> <<>>, min_rating |-> <<>>, in_stock_only |-> FALSE,
     featured_only |-> FALSE, tags |-> <<>>, attributes |-> <<>>,
     sort_by |-> "relevance", sort_order |-> "desc", page |-> 1, size |-> 20]

TagLists == { <<>>, << <<"new", "sale">> >>, << <<"sale", "new">> >> }
AttributeDicts == { <<>>,
                    << << <<"color", "red">>, <<"size", "M">> >> >>,
                    << << <<"size", "M">>, <<"color", "red">> >> >> }

Requests ==
    { [DefaultRequest("tv") EXCEPT !.category_id = c, !.brand = b, !.in_stock_only = s,
                                   !.tags = t, !.attributes = a, !.page = p] :
        c \in {<<>>, <<0>>, <<7>>}, b \in {<<>>, <<"acme">>}, s \in BOOLEAN,
        t \in TagLists, a \in AttributeDicts, p \in {1, 12} }

KeyInit ==
    /\ r1 = DefaultRequest("tv")
    /\ r2 = DefaultRequest("tv")
    /\ key1 = ""
    /\ key2 = ""

(***************************************************************************)
(* PerformanceMonitor.  Durations are in milliseconds, clock readings in   *)
(* seconds; a ratio is the exact fraction <<numerator, denominator>>.      *)
(***************************************************************************)
Capacity == 2               \* deque(maxlen=10000), scaled
TrendCapacity == 1          \* the last 1000 memory / CPU samples, scaled
MonTickStep == 3600
MonMaxTicks == 1

RETENTION == 3600
THROUGHPUT_WINDOW == 60
SLOW_QUERY_THRESHOLD == 1000
INF == 1000000000

MaxRecords == Capacity + 1
MaxSamples == TrendCapacity + 1

Endpoints == { "product_search", "get_product" }
StatusCodes == { 200, 500 }
\* <<response_time, cache_hit, database_queries, database_time>>: a request served
\* from the cache, one served by a slow query, one served slowly by a fast query
Cached == <<100, TRUE, 0, 0>>
SlowQuery == <<2500, FALSE, 1, 2000>>
CacheTypes == { "product_search", "get_product" }
MaxCacheHits == 3
UtcOffsets == { 0, 3600 }
Readings == { 85 }

Zero == <<0, 1>>

MonInit ==
    /\ mnow = 0
    /\ utc_offset \in UtcOffsets
    /\ metrics = <<>>
    /\ endpoint_stats = EmptyDict
    /\ mon_cache_stats = EmptyDict
    /\ error_rates = EmptyDict
    /\ throughput = EmptyDict
    /\ database_performance = [total_queries |-> 0, total_time |-> 0, slow_queries |-> 0]
    /\ memory_usage = <<>>
    /\ cpu_usage = <<>>
    /\ start_time = 0
    /\ last_cleanup = 0
    /\ nrec = 0
    /\ sinceRebuild = 0
    /\ nsamples = 0

DashInit ==
    dashboard_data = [last_update |-> <<>>, metrics |-> EmptyDict, alerts |-> <<>>,
                      system_status |-> "healthy"]

StatusInit ==
    /\ status_alerts = <<>>
    /\ status_result = ""

\* start_monitoring_loop is about to run its first cycle
LoopInit ==
    /\ dash_loop = "update"
    /\ cycle = [n |-> 0, fault |-> "none", published |-> FALSE]

NoStoreCall ==
    [op |-> "none", request |-> <<>>, table |-> <<>>, fault |-> "none", outcome |-> "none",
     response |-> <<>>, set_called |-> FALSE, set_value |-> <<>>, set_ttl |-> 0]

\* empty tables, no service call made
StoreInit ==
    /\ db_products = <<>>
    /\ db_users = 0
    /\ store_call = NoStoreCall

NoGetOrSet ==
    [key |-> <<>>, ttl |-> 0, at |-> 0, cached_value |-> "None", produced |-> "None",
     producer_calls |-> 0, returned |-> "None", set_reached_redis |-> FALSE,
     local_after |-> <<>>, redis_after |-> <<>>]

GosInit == gos = NoGetOrSet

Tasks == { "monitor", "cleanup", "dashboard" }

\* initialize() and the startup handler create the tasks; each starts with
\* its first iteration
TaskInit == tasks = [t \in Tasks |-> [pc |-> "iteration", delay |-> 0, raised |-> FALSE]]

ResetInit ==
    /\ reset_pc = 0
    /\ observed = [reads |-> 0, during_reset |-> FALSE]

RlInit == rl = [now |-> 0, key |-> <<>>, call |-> [pc |-> "idle", current |-> <<>>, at |-> 0],
               hist |-> <<>>]

\* the requests the gateway's routes have answered
AuthInit == auth = <<>>

NoTaskCall ==
    [op |-> "none", user |-> 0, task_id |-> 0, status |-> 0, detail |-> "",
     exists |-> FALSE, project_owner |-> 0, was_deleted |-> FALSE, before |-> <<>>]

\* the tasks table is empty; ids come from the table's sequence
OwnerInit == owner = [tasks |-> <<>>, next_id |-> 1, deleted |-> {}, calls |-> 0,
                      last |-> NoTaskCall]

\* no get_stats() call made yet
StatsReadInit == stats_read = <<>>

RaceInit == race = [calls |-> <<>>, deleted |-> FALSE]

LateInit == ResetInit /\ RlInit /\ AuthInit /\ OwnerInit /\ StatsReadInit /\ RaceInit

ExtInit == StatusInit /\ LoopInit /\ StoreInit /\ GosInit /\ TaskInit /\ LateInit

Init == CacheInit /\ KeyInit /\ MonInit /\ DashInit /\ ExtInit

\* initialize(): ok = the pool is created and ping() answers
Initialize(ok) ==
    /\ ~initialized
    /\ initialized' = TRUE
    /\ redis_client' = ok
    /\ UNCHANGED <<now, redis_db, local_cache, cache_stats, nops, nGets, nReturned,
                   invalidated, last>>
    /\ UNCHANGED <<keyVars, monVars, dashVars, extVars>>

BumpBackwards(stats, field) == [stats EXCEPT ![field] = @ - 1]

Bump(stats, field) == [stats EXCEPT ![field] = @ + 1]

OnErrorUncounted(stats) == stats

\* The except branch shared by every operation: count the error.
OnError(stats) == Bump(stats, "errors")

SetLocalExpiryUncapped(ttl) == now + CACHE_SHORT_TTL

\* expires_at of the local entry written by set / set_many
SetLocalExpiry(ttl) == now + Min(ttl, CACHE_SHORT_TTL)

\* expires_at of the local entry written when get repopulates from Redis
RepopulateExpiry == now + CACHE_SHORT_TTL

Call(op, key) == [NoCall EXCEPT !.op = op, !.key = key,
                                !.errors_before = cache_stats.errors]

\* get(key); fault = the Redis round trip raises
Get(key, fault) ==
    LET inLocal  == key \in DOMAIN local_cache
        localHit == inLocal /\ local_cache[key].expires_at > now
        purged   == IF inLocal /\ ~localHit THEN Del(local_cache, {key}) ELSE local_cache
        reach    == ~localHit /\ redis_client
        found    == RedisLive(_get_cache_key(key))
        data     == _deserialize(RedisGet(_get_cache_key(key)))
        call     == [Call("get", key) EXCEPT
                        !.after_set = IF last.op = "set" /\ last.key = key
                                      THEN last.value ELSE None,
                        !.after_mode = IF last.op = "set" /\ last.key = key
                                       THEN (IF last.fault THEN "raised"
                                             ELSE IF last.reached_redis THEN "connected"
                                             ELSE "no_client")
                                       ELSE "none",
                        !.reached_redis = reach]
    IN  /\ initialized /\ nops < MaxOps
        /\ fault => reach
        /\ nops' = nops + 1
        /\ nGets' = nGets + 1
        /\ IF localHit
           THEN /\ cache_stats' = Bump(cache_stats, "hits")
                /\ local_cache' = local_cache
                /\ nReturned' = nReturned + 1
                /\ last' = [call EXCEPT !.result = local_cache[key].data, !.src = "local"]
           ELSE IF reach /\ fault
           THEN /\ cache_stats' = OnError(cache_stats)
                /\ local_cache' = purged
                /\ nReturned' = nReturned
                /\ last' = [call EXCEPT !.fault = TRUE]
           ELSE IF reach /\ found
           THEN /\ cache_stats' = Bump(cache_stats, "hits")
                /\ local_cache' = Put(purged, key, [data |-> data,
                                                     expires_at |-> RepopulateExpiry])
                /\ nReturned' = nReturned + 1
                /\ last' = [call EXCEPT !.result = data, !.src = "redis"]
           ELSE /\ cache_stats' = Bump(cache_stats, "misses")
                /\ local_cache' = purged
                /\ nReturned' = nReturned
                /\ last' = call
        /\ UNCHANGED <<now, initialized, redis_client, redis_db, invalidated>>
        /\ UNCHANGED <<keyVars, monVars, dashVars, extVars>>

LocalAfterSetWrittenLast(key, value, ttl, fault) ==
    IF fault THEN local_cache
    ELSE Put(local_cache, key, [data |-> value,
                                expires_at |-> now + Min(EffectiveTtl(ttl), CACHE_SHORT_TTL)])

\* The local tier after set(key, value, ttl): written before Redis is contacted,
\* so whether or not that write raises.
LocalAfterSet(key, value, ttl, fault) ==
    Put(local_cache, key, [data |-> value, expires_at |-> SetLocalExpiry(EffectiveTtl(ttl))])

\* set(key, value, ttl); fault = setex raises
Set(key, value, ttl, fault) ==
    LET t    == EffectiveTtl(ttl)
        call == [Call("set", key) EXCEPT !.keys = {key}, !.value = value, !.fault = fault,
                                         !.reached_redis = redis_client]
    IN  /\ initialized /\ nops < MaxOps
        /\ fault => redis_client
        /\ nops' = nops + 1
        /\ local_cache' = LocalAfterSet(key, value, ttl, fault)
        /\ invalidated' = invalidated \ {key}
        /\ IF fault
           THEN /\ redis_db' = redis_db
                /\ cache_stats' = OnError(cache_stats)
                /\ last' = [call EXCEPT !.result = "False"]
           ELSE /\ redis_db' = IF redis_client
                               THEN RedisSetex(redis_db, _get_cache_key(key), t, _serialize(value))
                               ELSE redis_db
                /\ cache_stats' = Bump(cache_stats, "sets")
                /\ last' = [call EXCEPT !.result = "True"]
        /\ UNCHANGED <<now, initialized, redis_client, nGets, nReturned>>
        /\ UNCHANGED <<keyVars, monVars, dashVars, extVars>>

\* delete(key); fault = the Redis delete raises
Delete(key, fault) ==
    LET call == [Call("delete", key) EXCEPT !.fault = fault, !.reached_redis = redis_client]
    IN  /\ initialized /\ nops < MaxOps
        /\ fault => redis_client
        /\ nops' = nops + 1
        /\ local_cache' = Del(local_cache, {key})
        /\ IF fault
           THEN /\ redis_db' = redis_db
                /\ cache_stats' = OnError(cache_stats)
                /\ last' = [call EXCEPT !.result = "False"]
           ELSE /\ redis_db' = IF redis_client
                               THEN Del(redis_db, {_get_cache_key(key)})
                               ELSE redis_db
                /\ cache_stats' = Bump(cache_stats, "deletes")
                /\ last' = [call EXCEPT !.result = "True"]
        /\ UNCHANGED <<now, initialized, redis_client, nGets, nReturned, invalidated>>
        /\ UNCHANGED <<keyVars, monVars, dashVars, extVars>>

\* The local tier after delete_pattern(pattern): the method never touches it.
LocalAfterDeletePattern(pattern) == local_cache

\* delete_pattern(pattern); fault = "keys": KEYS raises, "delete": DEL raises
DeletePattern(pattern, fault) ==
    LET keys == RedisKeys(_get_cache_key(pattern))
        call == [Call("delete_pattern", pattern) EXCEPT
                    !.fault = fault # "none", !.reached_redis = redis_client]
    IN  /\ initialized /\ nops < MaxOps
        /\ fault # "none" => redis_client
        /\ fault = "delete" => keys # {}
        /\ nops' = nops + 1
        /\ local_cache' = LocalAfterDeletePattern(pattern)
        /\ IF ~redis_client
           THEN /\ UNCHANGED <<redis_db, cache_stats, invalidated>>
                /\ last' = call
           ELSE IF fault # "none"
           THEN /\ cache_stats' = OnError(cache_stats)
                /\ UNCHANGED <<redis_db, invalidated>>
                /\ last' = call
           ELSE /\ redis_db' = Del(redis_db, keys)
                /\ cache_stats' = [cache_stats EXCEPT !.deletes = @ + Cardinality(keys)]
                /\ invalidated' = invalidated \cup {k \in Keys : GlobMatch(pattern, k)}
                /\ last' = [call EXCEPT !.count = Cardinality(keys)]
        /\ UNCHANGED <<now, initialized, redis_client, nGets, nReturned>>
        /\ UNCHANGED <<keyVars, monVars, dashVars, extVars>>

\* clear_all(); fault as for delete_pattern
ClearAll(fault) ==
    LET keys == RedisKeys(CACHE_PREFIX \o <<":", "*">>)
        call == [Call("clear_all", <<>>) EXCEPT
                    !.fault = fault # "none", !.reached_redis = redis_client]
    IN  /\ initialized /\ nops < MaxOps
        /\ fault # "none" => redis_client
        /\ fault = "delete" => keys # {}
        /\ nops' = nops + 1
        /\ local_cache' = EmptyDict
        /\ IF fault # "none"
           THEN /\ redis_db' = redis_db
                /\ cache_stats' = OnError(cache_stats)
                /\ last' = [call EXCEPT !.result = "False"]
           ELSE /\ redis_db' = IF redis_client THEN Del(redis_db, keys) ELSE redis_db
                /\ cache_stats' = cache_stats
                /\ last' = [call EXCEPT !.result = "True"]
        /\ UNCHANGED <<now, initialized, redis_client, nGets, nReturned, invalidated>>
        /\ UNCHANGED <<keyVars, monVars, dashVars, extVars>>

\* set_many(data, ttl) for data = {k: value for k in ks}; fault = the pipeline raises
SetMany(ks, value, ttl, fault) ==
    LET t    == EffectiveTtl(ttl)
        call == [Call("set_many", <<>>) EXCEPT !.keys = ks, !.value = value, !.fault = fault,
                                               !.reached_redis = redis_client]
        entry == [data |-> value, expires_at |-> SetLocalExpiry(t)]
        stored == [data |-> _serialize(value), expires_at |-> now + t]
    IN  /\ initialized /\ nops < MaxOps
        /\ fault => redis_client
        /\ nops' = nops + 1
        /\ local_cache' = [k \in DOMAIN local_cache \cup ks |->
                              IF k \in ks THEN entry ELSE local_cache[k]]
        /\ invalidated' = invalidated \ ks
        /\ IF fault
           THEN /\ redis_db' = redis_db
                /\ cache_stats' = OnError(cache_stats)
                /\ last' = [call EXCEPT !.result = "False"]
           ELSE /\ redis_db' = IF redis_client
                               THEN [fk \in DOMAIN redis_db \cup {_get_cache_key(k) : k \in ks} |->
                                       IF fk \in {_get_cache_key(k) : k \in ks}
                                       THEN stored ELSE redis_db[fk]]
                               ELSE redis_db
                /\ cache_stats' = [cache_stats EXCEPT !.sets = @ + Cardinality(ks)]
                /\ last' = [call EXCEPT !.result = "True"]
        /\ UNCHANGED <<now, initialized, redis_client, nGets, nReturned>>
        /\ UNCHANGED <<keyVars, monVars, dashVars, extVars>>

\* The clock advances; the backend drops the entries whose TTL has run out.
Tick ==
    /\ initialized
    /\ now < MaxTicks * TickStep
    /\ now' = now + TickStep
    /\ redis_db' = Del(redis_db, {fk \in DOMAIN redis_db : redis_db[fk].expires_at <= now + TickStep})
    /\ last' = [NoCall EXCEPT !.op = "tick"]
    /\ UNCHANGED <<initialized, redis_client, local_cache, cache_stats, nops, nGets,
                   nReturned, invalidated>>
    /\ UNCHANGED <<keyVars, monVars, dashVars, extVars>>

\* get_stats(); hit_rate is kept as the exact fraction hits / total_requests
get_stats ==
    LET total_requests == cache_stats.hits + cache_stats.misses
    IN  [hits |-> cache_stats.hits,
         misses |-> cache_stats.misses,
         hit_rate |-> IF total_requests > 0 THEN <<cache_stats.hits, total_requests>> ELSE <<0, 1>>,
         sets |-> cache_stats.sets,
         deletes |-> cache_stats.deletes,
         errors |-> cache_stats.errors,
         local_cache_size |-> Cardinality(DOMAIN local_cache),
         redis_connected |-> redis_client]

Faults == {"none", "keys", "delete"}

CacheNext ==
    \/ \E ok \in BOOLEAN : Initialize(ok)
    \/ \E k \in Keys, f \in BOOLEAN : Get(k, f)
    \/ \E k \in Keys, v \in Values, t \in Ttls, f \in BOOLEAN : Set(k, v, t, f)
    \/ \E k \in Keys, f \in BOOLEAN : Delete(k, f)
    \/ \E p \in Patterns, f \in Faults : DeletePattern(p, f)
    \/ \E f \in Faults : ClearAll(f)
    \/ \E v \in Values, t \in Ttls, f \in BOOLEAN : SetMany(Keys, v, t, f)
    \/ Tick

\* the cache does not read the host's time zone
CacheSpecInit == Init /\ utc_offset = 0

SpecCache == CacheSpecInit /\ [][CacheNext]_vars

(***************************************************************************)
(* Claims about CacheService, checked under SpecCache.                     *)
(***************************************************************************)

\* C1: after any sequence of calls with N get calls of which M returned a
\* value, get_stats() reports hits = M and misses = N - M (a get that returns
\* absent because Redis raised counts as a miss too).
C1_HitMissAccounting ==
    /\ get_stats.hits = nReturned
    /\ get_stats.misses = nGets - nReturned

\* C2: a get of a key that matched a completed delete_pattern, and was not set
\* again since, returns absent.
C2_PatternInvalidation ==
    (last.op = "get" /\ last.key \in invalidated) => last.result = None

\* C3: when get repopulates the local tier from Redis, the local entry expires
\* no later than the Redis entry: its TTL is min(remaining TTL, CACHE_SHORT_TTL).
C3_TtlInvariant ==
    (last.op = "get" /\ last.src = "redis") =>
        LET shared == redis_db[_get_cache_key(last.key)].expires_at
            local  == local_cache[last.key].expires_at
        IN  /\ local <= shared
            /\ local = now + Min(shared - now, CACHE_SHORT_TTL)

\* C4: a set or set_many that writes both tiers gives the local entry an expiry
\* time no later than that of the Redis entry.
C4_WriteTtlCapped ==
    (last.op \in {"set", "set_many"} /\ last.reached_redis /\ ~last.fault) =>
        \A k \in last.keys :
            /\ k \in DOMAIN local_cache
            /\ _get_cache_key(k) \in DOMAIN redis_db
            /\ local_cache[k].expires_at <= redis_db[_get_cache_key(k)].expires_at

C4_Witness ==
    /\ last.op = "set_many" /\ last.reached_redis /\ ~last.fault
    /\ \E k \in last.keys :
          local_cache[k].expires_at < redis_db[_get_cache_key(k)].expires_at

\* C5: a get that follows set(k, v, ttl) at once returns v from the local tier,
\* whether Redis took the write, was never connected, or raised on it.
C5_SetThenGet ==
    (last.op = "get" /\ last.after_mode # "none") =>
        /\ last.result = last.after_set
        /\ last.src = "local"

C5_Witness ==
    last.op = "get" /\ last.after_mode = "raised" /\ last.result \in Values

\* C6: a call during which Redis raises returns its failure value (absent,
\* False, 0) instead of raising, and counts exactly one error.
C6_FaultsContained ==
    last.fault =>
        /\ ~last.raised
        /\ cache_stats.errors = last.errors_before + 1
        /\ last.op = "get" => last.result = None
        /\ last.op \in {"set", "set_many", "delete", "clear_all"} => last.result = "False"
        /\ last.op = "delete_pattern" => last.count = 0

C6_Witness ==
    last.fault /\ last.op = "delete_pattern" /\ cache_stats.errors = 1

(***************************************************************************)
(* SearchService: the cache key of a search request.                       *)
(***************************************************************************)

\* two requests arrive, drawn from Requests
KeySpecInit ==
    /\ CacheInit /\ MonInit /\ DashInit /\ ExtInit
    /\ utc_offset = 0
    /\ r1 \in Requests
    /\ r2 \in Requests
    /\ key1 = ""
    /\ key2 = ""

\* search_products keys each of them (search_service.py:158)
CreateCacheKeys ==
    /\ key1' = _create_cache_key(r1)
    /\ key2' = _create_cache_key(r2)
    /\ UNCHANGED <<r1, r2, cacheVars, monVars, dashVars, extVars>>

KeyNext == CreateCacheKeys

SpecKey == KeySpecInit /\ [][KeyNext]_vars

\* The items of a dict; two dicts are equal when their items are.
Items(o) == IF o = <<>> THEN {} ELSE { o[1][i] : i \in 1..Len(o[1]) }

\* Python's ==, field by field, of two requests
SameFieldValues(a, b) ==
    /\ a.query = b.query /\ a.category_id = b.category_id /\ a.brand = b.brand
    /\ a.min_price = b.min_price /\ a.max_price = b.max_price
    /\ a.min_rating = b.min_rating /\ a.in_stock_only = b.in_stock_only
    /\ a.featured_only = b.featured_only /\ a.tags = b.tags
    /\ (a.attributes = <<>>) = (b.attributes = <<>>)
    /\ Items(a.attributes) = Items(b.attributes)
    /\ a.sort_by = b.sort_by /\ a.sort_order = b.sort_order
    /\ a.page = b.page /\ a.size = b.size

\* C7: two requests with identical field values, whatever the order in which
\* the attributes map was built, get the same cache key.
C7_KeyDeterminism ==
    (key1 # "" /\ SameFieldValues(r1, r2)) => key1 = key2

(***************************************************************************)
(* PerformanceMonitor: recording, pruning, reset.                          *)
(***************************************************************************)

\* datetime.utcnow(): a naive datetime holding the UTC wall clock
UtcNow == mnow

\* naive_datetime.timestamp(): the naive value is read as local time
TimestampOf(naive) == naive - utc_offset

\* datetime.fromtimestamp(t): a naive datetime holding the local wall clock
FromTimestamp(t) == t + utc_offset

DequeAppendUnbounded(q, x) == Append(q, x)

\* deque.append with maxlen: the oldest entry leaves when the deque is full
DequeAppend(q, x) ==
    IF Len(q) >= Capacity THEN SubSeq(q, 2, Len(q)) \o <<x>> ELSE Append(q, x)

\* deque(iterable, maxlen): the last maxlen items
DequeOf(l) == IF Len(l) > Capacity THEN SubSeq(l, Len(l) - Capacity + 1, Len(l)) ELSE l

\* [x for x in l if Keep(x)]
Filter(l, Keep(_)) == SelectSeq(l, Keep)

\* the defaultdict's factory value
NewStats == [total_requests |-> 0, total_response_time |-> 0, min_response_time |-> INF,
             max_response_time |-> 0, status_codes |-> EmptyDict, cache_hits |-> 0,
             database_queries |-> 0, database_time |-> 0, errors |-> 0]

StatsOf(endpoint) ==
    IF endpoint \in DOMAIN endpoint_stats THEN endpoint_stats[endpoint] ELSE NewStats

CountFromOne(d, k) == IF k \in DOMAIN d THEN d[k] ELSE 1

\* d[k] of a defaultdict(int)
Count(d, k) == IF k \in DOMAIN d THEN d[k] ELSE 0

\* record_request(endpoint, response_time, status_code, cache_hit, database_queries,
\* database_time)
RecordRequest(endpoint, response_time, status_code, cache_hit, database_queries, database_time) ==
    LET metric == [id |-> nrec + 1, endpoint |-> endpoint, response_time |-> response_time,
                   status_code |-> status_code, timestamp |-> UtcNow,
                   cache_hit |-> cache_hit, database_queries |-> database_queries,
                   database_time |-> database_time]
        old    == StatsOf(endpoint)
        stats  == [total_requests |-> old.total_requests + 1,
                   total_response_time |-> old.total_response_time + response_time,
                   min_response_time |-> Min(old.min_response_time, response_time),
                   max_response_time |-> Max(old.max_response_time, response_time),
                   status_codes |-> Put(old.status_codes, status_code,
                                        Count(old.status_codes, status_code) + 1),
                   cache_hits |-> old.cache_hits + (IF cache_hit THEN 1 ELSE 0),
                   database_queries |-> old.database_queries + database_queries,
                   database_time |-> old.database_time + database_time,
                   errors |-> old.errors + (IF status_code >= 400 THEN 1 ELSE 0)]
        stored == DequeAppend(metrics, metric)
        recent == Filter(stored, LAMBDA m : mnow - TimestampOf(m.timestamp) <= THROUGHPUT_WINDOW)
    IN  /\ nrec < MaxRecords
        /\ metrics' = stored
        /\ endpoint_stats' = Put(endpoint_stats, endpoint, stats)
        /\ database_performance' =
              [total_queries |-> database_performance.total_queries + database_queries,
               total_time |-> database_performance.total_time + database_time,
               slow_queries |-> database_performance.slow_queries
                                + (IF database_time > SLOW_QUERY_THRESHOLD THEN 1 ELSE 0)]
        /\ error_rates' = IF status_code >= 400
                          THEN Put(error_rates, endpoint, <<stats.errors, stats.total_requests>>)
                          ELSE error_rates
        /\ throughput' = Put(throughput, endpoint, <<Len(recent), THROUGHPUT_WINDOW>>)
        /\ nrec' = nrec + 1
        /\ sinceRebuild' = sinceRebuild + 1
        /\ UNCHANGED <<mnow, utc_offset, mon_cache_stats, memory_usage, cpu_usage, start_time,
                       last_cleanup, nsamples>>
        /\ UNCHANGED <<cacheVars, keyVars, dashVars, extVars>>

\* record_cache_hit(cache_type)
RecordCacheHit(cache_type) ==
    /\ Count(mon_cache_stats, "product_search") + Count(mon_cache_stats, "get_product") < MaxCacheHits
    /\ mon_cache_stats' = Put(mon_cache_stats, cache_type, Count(mon_cache_stats, cache_type) + 1)
    /\ UNCHANGED <<mnow, utc_offset, metrics, endpoint_stats, error_rates, throughput,
                   database_performance, memory_usage, cpu_usage, start_time,
                   last_cleanup, nrec, sinceRebuild, nsamples>>
    /\ UNCHANGED <<cacheVars, keyVars, dashVars, extVars>>

\* list[-n:]
LastN(l, n) == IF Len(l) > n THEN SubSeq(l, Len(l) - n + 1, Len(l)) ELSE l

\* one iteration of _monitor_system_resources that does not raise
MonitorSystemResources(memory_percent, cpu_percent) ==
    /\ nsamples < MaxSamples
    /\ nsamples' = nsamples + 1
    /\ memory_usage' = LastN(Append(memory_usage, [timestamp |-> UtcNow,
                                                    used_percent |-> memory_percent]),
                             TrendCapacity)
    /\ cpu_usage' = LastN(Append(cpu_usage, [timestamp |-> UtcNow,
                                              cpu_percent |-> cpu_percent]),
                          TrendCapacity)
    /\ UNCHANGED <<mnow, utc_offset, metrics, endpoint_stats, mon_cache_stats, error_rates,
                   throughput, database_performance, start_time, last_cleanup, nrec,
                   sinceRebuild>>
    /\ UNCHANGED <<cacheVars, keyVars, dashVars, extVars>>

\* one iteration of _cleanup_old_metrics that does not raise
CleanupOldMetrics ==
    LET current_time == mnow
        cutoff_time == current_time - RETENTION
        cutoff_datetime == FromTimestamp(cutoff_time)
    IN  /\ metrics' = DequeOf(Filter(metrics,
                                     LAMBDA m : TimestampOf(m.timestamp) > cutoff_time))
        /\ memory_usage' = Filter(memory_usage, LAMBDA m : m.timestamp > cutoff_datetime)
        /\ cpu_usage' = Filter(cpu_usage, LAMBDA c : c.timestamp > cutoff_datetime)
        /\ last_cleanup' = current_time
        /\ sinceRebuild' = 0
        /\ UNCHANGED <<mnow, utc_offset, endpoint_stats, mon_cache_stats, error_rates,
                       throughput, database_performance, start_time, nrec, nsamples>>
        /\ UNCHANGED <<cacheVars, keyVars, dashVars, extVars>>

\* reset_metrics()
ResetMetrics ==
    /\ metrics' = <<>>
    /\ endpoint_stats' = EmptyDict
    /\ mon_cache_stats' = EmptyDict
    /\ error_rates' = EmptyDict
    /\ throughput' = EmptyDict
    /\ database_performance' = [total_queries |-> 0, total_time |-> 0, slow_queries |-> 0]
    /\ memory_usage' = <<>>
    /\ cpu_usage' = <<>>
    /\ start_time' = mnow
    /\ last_cleanup' = mnow
    /\ sinceRebuild' = 0
    /\ UNCHANGED <<mnow, utc_offset, nrec, nsamples>>
    /\ UNCHANGED <<cacheVars, keyVars, dashVars, extVars>>

\* the monitor's clock advances
MonTick ==
    /\ mnow < MonMaxTicks * MonTickStep
    /\ mnow' = mnow + MonTickStep
    /\ UNCHANGED <<utc_offset, metrics, endpoint_stats, mon_cache_stats, error_rates,
                   throughput, database_performance, memory_usage, cpu_usage, start_time,
                   last_cleanup, nrec, sinceRebuild, nsamples>>
    /\ UNCHANGED <<cacheVars, keyVars, dashVars, extVars>>

MonNext ==
    \/ \E e \in Endpoints, sc \in StatusCodes, r \in {Cached, SlowQuery} :
          RecordRequest(e, r[1], sc, r[2], r[3], r[4])
    \/ CleanupOldMetrics
    \/ ResetMetrics
    \/ MonTick

SpecMon == Init /\ [][MonNext]_vars

(***************************************************************************)
(* get_metrics and the dashboard's update cycle.                           *)
(***************************************************************************)
TREND_LEN == 10
P95_ALERT_MS == 1000
ERROR_RATE_ALERT == 5
CACHE_HIT_RATE_ALERT == 50
CRITICAL_PERCENT == 90
WARNING_PERCENT == 80
SLOW_QUERY_RATE_ALERT == 10

\* comparisons of a fraction <<num, den>>, den > 0, with an integer
FracGt(f, n) == f[1] > n * f[2]
FracLt(f, n) == f[1] < n * f[2]

DictGet(d, k, default) == IF k \in DOMAIN d THEN d[k] ELSE default

RECURSIVE SumSeq(_)
SumSeq(l) == IF l = <<>> THEN 0 ELSE Head(l) + SumSeq(Tail(l))

RECURSIVE SetToSeq(_)
SetToSeq(S) ==
    IF S = {} THEN <<>>
    ELSE LET x == CHOOSE y \in S : TRUE IN <<x>> \o SetToSeq(S \ {x})

\* sum(d.values())
SumValues(d) == SumSeq([i \in 1..Cardinality(DOMAIN d) |-> d[SetToSeq(DOMAIN d)[i]]])

\* the value of rank ceil(n * pct / 100)
PercentileNearestRank(sorted, pct) == sorted[Max((Len(sorted) * pct + 99) \div 100, 1)]

\* response_times[int(n * pct / 100)], the list being 0-indexed
PercentileOf(sorted, pct) == sorted[((Len(sorted) * pct) \div 100) + 1]

\* the "response_times" part of get_metrics
Percentiles ==
    LET response_times == SortSeq([i \in 1..Len(metrics) |-> metrics[i].response_time],
                                  LAMBDA a, b : a < b)
        n == Len(response_times)
    IN  IF n > 0
        THEN [p50 |-> PercentileOf(response_times, 50),
              p90 |-> PercentileOf(response_times, 90),
              p95 |-> PercentileOf(response_times, 95),
              p99 |-> PercentileOf(response_times, 99),
              min |-> response_times[1],
              max |-> response_times[n],
              avg |-> <<SumSeq(response_times), n>>]
        ELSE EmptyDict

\* the "endpoints" part of get_metrics
EndpointMetrics ==
    [e \in {x \in DOMAIN endpoint_stats : endpoint_stats[x].total_requests > 0} |->
        LET stats == endpoint_stats[e]
        IN  [total_requests |-> stats.total_requests,
             average_response_time |-> <<stats.total_response_time, stats.total_requests>>,
             min_response_time |-> IF stats.min_response_time # INF
                                   THEN stats.min_response_time ELSE 0,
             max_response_time |-> stats.max_response_time,
             cache_hit_rate |-> <<stats.cache_hits * 100, stats.total_requests>>,
             error_rate |-> <<stats.errors * 100, stats.total_requests>>,
             throughput |-> DictGet(throughput, e, Zero),
             status_codes |-> stats.status_codes]]

\* the "cache_hit_rates" part of get_metrics
\* hits over hits plus recorded requests
CacheHitRatesOverRequests ==
    LET total_cache_requests == SumValues(mon_cache_stats)
    IN  IF total_cache_requests > 0
        THEN [c \in DOMAIN mon_cache_stats |->
                 <<mon_cache_stats[c] * 100, total_cache_requests + nrec>>]
        ELSE EmptyDict

CacheHitRates ==
    LET total_cache_requests == SumValues(mon_cache_stats)
    IN  IF total_cache_requests > 0
        THEN [c \in DOMAIN mon_cache_stats |-> <<mon_cache_stats[c] * 100, total_cache_requests>>]
        ELSE EmptyDict

\* the "database_performance" part of get_metrics
DbPerformance ==
    [total_queries |-> database_performance.total_queries,
     total_time |-> database_performance.total_time,
     average_time |-> IF database_performance.total_queries > 0
                      THEN <<database_performance.total_time, database_performance.total_queries>>
                      ELSE Zero,
     slow_queries |-> database_performance.slow_queries,
     slow_query_rate |-> IF database_performance.total_queries > 0
                         THEN <<database_performance.slow_queries * 100,
                                database_performance.total_queries>>
                         ELSE Zero]

\* get_metrics(), psutil reading memory_percent and cpu_percent
get_metrics(memory_percent, cpu_percent) ==
    [response_times |-> Percentiles,
     endpoints |-> EndpointMetrics,
     cache_hit_rates |-> CacheHitRates,
     error_rates |-> error_rates,
     throughput |-> throughput,
     database_performance |-> DbPerformance,
     memory_usage |-> [current_percent |-> memory_percent,
                       trend |-> LET recent == LastN(memory_usage, TREND_LEN)
                                 IN  [i \in 1..Len(recent) |-> recent[i].used_percent]],
     cpu_usage |-> [current_percent |-> cpu_percent,
                    trend |-> LET recent == LastN(cpu_usage, TREND_LEN)
                              IN  [i \in 1..Len(recent) |-> recent[i].cpu_percent]],
     system_info |-> [uptime_seconds |-> mnow - start_time,
                      total_metrics |-> Len(metrics),
                      last_cleanup |-> last_cleanup],
     generated_at |-> UtcNow]

\* _get_system_metrics(); ok = psutil answers
_get_system_metrics(ok, memory_percent, cpu_percent) ==
    IF ok THEN [cpu |-> [percent |-> cpu_percent], memory |-> [percent |-> memory_percent]]
    ELSE EmptyDict

Alert(type, message, subject, severity) ==
    [type |-> type, message |-> message, subject |-> subject, severity |-> severity]

P95Alerts(performance_metrics) ==
    IF DictGet(DictGet(performance_metrics, "response_times", EmptyDict), "p95", 0) > P95_ALERT_MS
    THEN << Alert("warning", "High response time detected: P95", "", "medium") >>
    ELSE <<>>

\* for endpoint, rate in error_rates.items(): if rate > 5.0
ErrorRateAlerts(performance_metrics) ==
    LET rates == DictGet(performance_metrics, "error_rates", EmptyDict)
        high  == SetToSeq({e \in DOMAIN rates : FracGt(rates[e], ERROR_RATE_ALERT)})
    IN  [i \in 1..Len(high) |-> Alert("error", "High error rate for", high[i], "high")]

\* for cache_type, rate in cache_hit_rates.items(): if rate < 50.0
CacheHitRateAlerts(performance_metrics) ==
    LET rates == DictGet(performance_metrics, "cache_hit_rates", EmptyDict)
        low   == SetToSeq({c \in DOMAIN rates : FracLt(rates[c], CACHE_HIT_RATE_ALERT)})
    IN  [i \in 1..Len(low) |-> Alert("warning", "Low cache hit rate for", low[i], "low")]

MemoryAlertsBoth(memory_percent) ==
    (IF memory_percent > CRITICAL_PERCENT
     THEN << Alert("critical", "High memory usage", "", "critical") >> ELSE <<>>)
    \o (IF memory_percent > WARNING_PERCENT
        THEN << Alert("warning", "Elevated memory usage", "", "medium") >> ELSE <<>>)

MemoryAlerts(memory_percent) ==
    IF memory_percent > CRITICAL_PERCENT
    THEN << Alert("critical", "High memory usage", "", "critical") >>
    ELSE IF memory_percent > WARNING_PERCENT
    THEN << Alert("warning", "Elevated memory usage", "", "medium") >>
    ELSE <<>>

CpuAlerts(cpu_percent) ==
    IF cpu_percent > CRITICAL_PERCENT
    THEN << Alert("critical", "High CPU usage", "", "critical") >>
    ELSE IF cpu_percent > WARNING_PERCENT
    THEN << Alert("warning", "Elevated CPU usage", "", "medium") >>
    ELSE <<>>

SlowQueryAlerts(performance_metrics) ==
    IF FracGt(DictGet(DictGet(performance_metrics, "database_performance", EmptyDict),
                      "slow_query_rate", Zero), SLOW_QUERY_RATE_ALERT)
    THEN << Alert("warning", "High slow query rate", "", "medium") >>
    ELSE <<>>

\* system_metrics.get(part, {}).get("percent", 0)
PercentOf(system_metrics, part) ==
    IF part \in DOMAIN system_metrics THEN system_metrics[part].percent ELSE 0

_check_alerts(performance_metrics, cache_statistics, system_metrics) ==
    P95Alerts(performance_metrics)
    \o ErrorRateAlerts(performance_metrics)
    \o CacheHitRateAlerts(performance_metrics)
    \o MemoryAlerts(PercentOf(system_metrics, "memory"))
    \o CpuAlerts(PercentOf(system_metrics, "cpu"))
    \o SlowQueryAlerts(performance_metrics)

DetermineHighFirst(performance_metrics, alerts) ==
    IF \E i \in 1..Len(alerts) : alerts[i].severity = "high" THEN "degraded"
    ELSE IF \E i \in 1..Len(alerts) : alerts[i].severity = "critical" THEN "critical"
    ELSE "healthy"

_determine_system_status(performance_metrics, alerts) ==
    IF \E i \in 1..Len(alerts) : alerts[i].severity = "critical" THEN "critical"
    ELSE IF \E i \in 1..Len(alerts) : alerts[i].severity = "high" THEN "degraded"
    ELSE "healthy"

\* update_dashboard_data(), no step of it raising
UpdateDashboardData(ok, memory_percent, cpu_percent) ==
    LET performance_metrics == get_metrics(memory_percent, cpu_percent)
        stats == get_stats
        system_metrics == _get_system_metrics(ok, memory_percent, cpu_percent)
        alerts == _check_alerts(performance_metrics, stats, system_metrics)
    IN  /\ dashboard_data' =
              [last_update |-> <<UtcNow>>,
               metrics |-> [performance |-> performance_metrics, cache |-> stats,
                            system |-> system_metrics],
               alerts |-> alerts,
               system_status |-> _determine_system_status(performance_metrics, alerts)]
        /\ UNCHANGED <<cacheVars, keyVars, monVars, extVars>>

Percents == { 80, 90, 95 }
SlowResponse == <<1500, FALSE, 1, 500>>
AtThreshold == <<1000, FALSE, 1, 1000>>
DashMaxRecords == 2

\* requests and cache hits are recorded, then the update cycle runs once
DashNext ==
    \/ \E e \in Endpoints, sc \in StatusCodes,
           r \in {Cached, SlowQuery, SlowResponse, AtThreshold} :
          /\ dashboard_data.last_update = <<>>
          /\ nrec < DashMaxRecords
          /\ RecordRequest(e, r[1], sc, r[2], r[3], r[4])
    \/ \E c \in CacheTypes :
          dashboard_data.last_update = <<>> /\ RecordCacheHit(c)
    \/ \E m \in Percents, c \in Percents :
          dashboard_data.last_update = <<>> /\ UpdateDashboardData(TRUE, m, c)
    \/ dashboard_data.last_update = <<>> /\ UpdateDashboardData(FALSE, 95, 95)

DashSpecInit == Init /\ utc_offset = 0

SpecDash == DashSpecInit /\ [][DashNext]_vars

Updated == dashboard_data.last_update # <<>>
Snapshot == dashboard_data.metrics.performance
AlertsWhere(Test(_)) == SelectSeq(dashboard_data.alerts, Test)

\* C9: whenever the observations recorded for an endpoint give it an error
\* rate above 5% (errors / total_requests > 0.05), the evaluation pass over
\* the get_metrics() output emits an alert of type error with severity high
\* for that endpoint, and the overall status is at least degraded.
C9_ErrorRateAlert ==
    Updated =>
        \A e \in DOMAIN Snapshot.endpoints :
            20 * endpoint_stats[e].errors > endpoint_stats[e].total_requests =>
                /\ \E i \in 1..Len(dashboard_data.alerts) :
                      /\ dashboard_data.alerts[i].type = "error"
                      /\ dashboard_data.alerts[i].severity = "high"
                      /\ dashboard_data.alerts[i].subject = e
                /\ dashboard_data.system_status \in {"degraded", "critical"}

IsP95Alert(a) == a.message = "High response time detected: P95"
IsMemoryAlert(a) == a.message \in {"High memory usage", "Elevated memory usage"}
IsCpuAlert(a) == a.message \in {"High CPU usage", "Elevated CPU usage"}

\* the alerts of one resource are exactly the one its reading calls for
ResourceExact(percent, resourceAlerts) ==
    /\ percent > 90 =>
          /\ Len(resourceAlerts) = 1
          /\ resourceAlerts[1].type = "critical"
          /\ resourceAlerts[1].severity = "critical"
    /\ (percent > 80 /\ percent <= 90) =>
          /\ Len(resourceAlerts) = 1
          /\ resourceAlerts[1].type = "warning"
    /\ percent <= 80 => resourceAlerts = <<>>
    /\ ~ \E i, j \in 1..Len(resourceAlerts) :
            resourceAlerts[i].type = "critical" /\ resourceAlerts[j].type = "warning"

\* every value of the snapshot but p95 is within its threshold
OnlyP95Abnormal ==
    /\ DictGet(Snapshot.response_times, "p95", 0) > 1000
    /\ \A e \in DOMAIN Snapshot.error_rates : ~FracGt(Snapshot.error_rates[e], 5)
    /\ \A c \in DOMAIN Snapshot.cache_hit_rates : ~FracLt(Snapshot.cache_hit_rates[c], 50)
    /\ PercentOf(dashboard_data.metrics.system, "memory") <= 80
    /\ PercentOf(dashboard_data.metrics.system, "cpu") <= 80
    /\ ~FracGt(Snapshot.database_performance.slow_query_rate, 10)

\* C10: alert thresholds are exact and mutually exclusive per resource: a
\* snapshot whose only abnormal value is p95 > 1.0 s yields exactly one alert,
\* a warning naming P95 (and p95 <= 1.0 s yields no P95 alert); memory above
\* 90% yields exactly one memory alert, critical; memory in (80, 90] exactly
\* one memory alert, a warning; the same for CPU; the critical and the warning
\* alert of one resource are never emitted together.
C10_AlertThresholds ==
    Updated =>
        /\ OnlyP95Abnormal =>
              /\ Len(dashboard_data.alerts) = 1
              /\ dashboard_data.alerts[1].type = "warning"
              /\ IsP95Alert(dashboard_data.alerts[1])
        /\ Len(AlertsWhere(IsP95Alert)) =
              (IF DictGet(Snapshot.response_times, "p95", 0) > 1000 THEN 1 ELSE 0)
        /\ ResourceExact(PercentOf(dashboard_data.metrics.system, "memory"),
                         AlertsWhere(IsMemoryAlert))
        /\ ResourceExact(PercentOf(dashboard_data.metrics.system, "cpu"),
                         AlertsWhere(IsCpuAlert))

\* an update cycle saw memory at 95%, CPU at 90% and a p95 of 1.5 s
C10_Witness ==
    /\ Updated
    /\ PercentOf(dashboard_data.metrics.system, "memory") = 95
    /\ PercentOf(dashboard_data.metrics.system, "cpu") = 90
    /\ DictGet(Snapshot.response_times, "p95", 0) = 1500
    /\ Len(dashboard_data.alerts) = 3

\* an update cycle saw a snapshot whose only abnormal value is p95
C10_OnlyP95Reached == Updated /\ OnlyP95Abnormal

\* an update cycle saw a p95 of exactly 1.0 s and memory at exactly 80%
C10_BoundaryReached ==
    /\ Updated
    /\ DictGet(Snapshot.response_times, "p95", 0) = 1000
    /\ PercentOf(dashboard_data.metrics.system, "memory") = 80

(***************************************************************************)
(* The overall status, as a function of the alert list and as published.   *)
(***************************************************************************)
MaxAlerts == 2

\* one alert of each severity _check_alerts can build
AlertKinds ==
    { Alert("warning", "Low cache hit rate for", "product_search", "low"),
      Alert("warning", "High response time detected: P95", "", "medium"),
      Alert("error", "High error rate for", "product_search", "high"),
      Alert("critical", "High memory usage", "", "critical") }

AlertLists == UNION { [1..n -> AlertKinds] : n \in 0..MaxAlerts }

\* _determine_system_status(performance_metrics, alerts) called on a list
DetermineSystemStatus(alerts) ==
    /\ status_alerts' = alerts
    /\ status_result' = _determine_system_status(EmptyDict, alerts)
    /\ UNCHANGED <<cacheVars, keyVars, monVars, dashVars, loopVars, storeVars, gosVars, taskVars, lateVars>>

StatusNext ==
    \/ \E a \in AlertLists : DetermineSystemStatus(a)
    \/ \E m \in Percents, c \in Percents : UpdateDashboardData(TRUE, m, c)
    \/ UpdateDashboardData(FALSE, 95, 95)

StatusSpecInit == Init /\ utc_offset = 0

SpecStatus == StatusSpecInit /\ [][StatusNext]_vars

HasSeverity(alerts, severity) == \E i \in 1..Len(alerts) : alerts[i].severity = severity

StatusOf(alerts) ==
    IF HasSeverity(alerts, "critical") THEN "critical"
    ELSE IF HasSeverity(alerts, "high") THEN "degraded"
    ELSE "healthy"

\* C11: the overall status is a function of the alert list only: critical if
\* some alert has severity critical, otherwise degraded if some alert has
\* severity high, otherwise healthy; and the system_status published by an
\* update cycle is the status of the alerts published by the same cycle.
C11_StatusOfAlerts ==
    /\ status_result # "" => status_result = StatusOf(status_alerts)
    /\ Updated => dashboard_data.system_status = StatusOf(dashboard_data.alerts)

\* the function returned degraded for a list with a high and no critical
\* alert, and a cycle published critical together with a critical alert
C11_Witness ==
    /\ status_result = "degraded"
    /\ HasSeverity(status_alerts, "high")
    /\ Updated
    /\ dashboard_data.system_status = "critical"
    /\ HasSeverity(dashboard_data.alerts, "critical")

(***************************************************************************)
(* start_monitoring_loop: update cycles in which a step raises.            *)
(***************************************************************************)
MaxCycles == 2

\* the six checks of _check_alerts, in the order it makes them
Checks(performance_metrics, system_metrics) ==
    << P95Alerts(performance_metrics),
       ErrorRateAlerts(performance_metrics),
       CacheHitRateAlerts(performance_metrics),
       MemoryAlerts(PercentOf(system_metrics, "memory")),
       CpuAlerts(PercentOf(system_metrics, "cpu")),
       SlowQueryAlerts(performance_metrics) >>

RECURSIVE Concat(_, _)
Concat(parts, n) == IF n = 0 THEN <<>> ELSE Concat(parts, n - 1) \o parts[n]

\* _check_alerts when its k-th check raises: the except branch logs and the
\* alerts appended so far are returned
_check_alerts_raising(performance_metrics, cache_statistics, system_metrics, k) ==
    Concat(Checks(performance_metrics, system_metrics), k - 1)

\* get_metrics when a step of it raises: its except branch returns this
get_metrics_raising == [error |-> "error", generated_at |-> UtcNow]

CheckFaults == { "check1", "check2", "check3", "check4", "check5", "check6" }
FaultPoints == { "none", "get_metrics", "get_stats" } \cup CheckFaults
CheckNumber(point) ==
    CASE point = "check1" -> 1 [] point = "check2" -> 2 [] point = "check3" -> 3
      [] point = "check4" -> 4 [] point = "check5" -> 5 [] point = "check6" -> 6

\* one pass of start_monitoring_loop's body: update_dashboard_data() with the
\* step named by point raising (none: no step raises); it returns normally in
\* every case, and the loop goes to sleep
UpdateCycle(point, memory_percent, cpu_percent) ==
    LET performance_metrics == IF point = "get_metrics" THEN get_metrics_raising
                               ELSE get_metrics(memory_percent, cpu_percent)
        stats == get_stats
        system_metrics == _get_system_metrics(TRUE, memory_percent, cpu_percent)
        alerts == IF point \in CheckFaults
                  THEN _check_alerts_raising(performance_metrics, stats, system_metrics,
                                             CheckNumber(point))
                  ELSE _check_alerts(performance_metrics, stats, system_metrics)
    IN  /\ dash_loop = "update"
        /\ cycle.n < MaxCycles
        /\ IF point = "get_stats"
           THEN UNCHANGED dashboard_data
           ELSE dashboard_data' =
                  [last_update |-> <<UtcNow>>,
                   metrics |-> [performance |-> performance_metrics, cache |-> stats,
                                system |-> system_metrics],
                   alerts |-> alerts,
                   system_status |-> _determine_system_status(performance_metrics, alerts)]
        /\ cycle' = [n |-> cycle.n + 1, fault |-> point, published |-> point # "get_stats"]
        /\ dash_loop' = "sleep"
        /\ UNCHANGED <<cacheVars, keyVars, monVars, statusVars, storeVars, gosVars, taskVars, lateVars>>

\* asyncio.sleep(5) returns
LoopWake ==
    /\ dash_loop = "sleep"
    /\ dash_loop' = "update"
    /\ UNCHANGED <<cacheVars, keyVars, monVars, dashVars, statusVars, storeVars, gosVars, taskVars, lateVars, cycle>>

SystemReadings == { <<80, 80>>, <<95, 90>> }

\* requests are recorded, then the loop runs its cycles
LoopNext ==
    \/ \E e \in Endpoints, sc \in StatusCodes, r \in {Cached, SlowResponse} :
          /\ cycle.n = 0
          /\ nrec < DashMaxRecords
          /\ RecordRequest(e, r[1], sc, r[2], r[3], r[4])
    \/ \E point \in FaultPoints, s \in SystemReadings : UpdateCycle(point, s[1], s[2])
    \/ LoopWake

LoopSpecInit == Init /\ utc_offset = 0

SpecLoop == LoopSpecInit /\ [][LoopNext]_vars

\* C12: if a step of an update cycle raises, while the metrics are collected
\* or while a threshold is checked, the alert list published for that cycle
\* is empty, and start_monitoring_loop goes on to the next cycle.
C12_FaultyCycleNoAlerts ==
    (cycle.n > 0 /\ cycle.fault # "none") =>
        /\ dashboard_data.alerts = <<>>
        /\ dash_loop \in {"sleep", "update"}

(***************************************************************************)
(* SearchService.search_products and AnalyticsService over the data store. *)
(***************************************************************************)
MaxRows == 3
MaxUsers == 2
SEARCH_CACHE_TTL == 300
ANALYTICS_CACHE_TTL == 3600

ProductRows(n) == { [id |-> n, category_id |-> c, is_active |-> a] : c \in {1, 2}, a \in BOOLEAN }

\* the conditions of _build_search_query on a row: the category filter when
\* request.category_id is truthy, and active products only
Matches(request, row) ==
    /\ IntOrEmpty(request.category_id) # "" => row.category_id = request.category_id[1]
    /\ row.is_active

Filtered(request) == SelectSeq(db_products, LAMBDA row : Matches(request, row))

\* select count(Product.id) with the conditions of the search query
CountQuery(request) == Len(Filtered(request))

OffsetWithoutLimit(rows, offset, limit) == SubSeq(rows, offset + 1, Len(rows))

\* query.offset(offset).limit(size)
OffsetLimit(rows, offset, limit) == SubSeq(rows, offset + 1, Min(offset + limit, Len(rows)))

PageQuery(request) == OffsetLimit(Filtered(request), (request.page - 1) * request.size, request.size)

\* (total + size - 1) // size
Pages(total, size) == (total + size - 1) \div size

\* _calculate_facets: its except branch returns {}
_calculate_facets(request, failed) ==
    IF failed THEN EmptyDict
    ELSE [categories |-> { row.category_id : row \in { Filtered(request)[i] :
                                                        i \in 1..Len(Filtered(request)) } }]

SearchRequests ==
    { [DefaultRequest("tv") EXCEPT !.category_id = c, !.page = p, !.size = z] :
        c \in {<<>>, <<1>>}, p \in 1..3, z \in 1..2 }

SearchFaults == { "none", "count", "products", "facets" }

\* a call, with the products table as it is when the call is made
StoreCall(op, request, fault) ==
    [NoStoreCall EXCEPT !.op = op, !.request = request, !.table = db_products, !.fault = fault]

Returned(call, response, ttl) ==
    [call EXCEPT !.outcome = "returned", !.response = response,
                 !.set_called = TRUE, !.set_value = response, !.set_ttl = ttl]

\* search_products(request, db); cached: cache_service.get returned a result;
\* fault: the data-store query that fails
SearchProducts(request, cached, fault) ==
    LET call == StoreCall("search_products", request, fault)
        total == CountQuery(request)
        response == [products |-> PageQuery(request), total |-> total,
                     page |-> request.page, size |-> request.size,
                     pages |-> Pages(total, request.size),
                     facets |-> _calculate_facets(request, fault = "facets"),
                     cache_hit |-> FALSE]
    IN  /\ cached => fault = "none"
        /\ store_call' =
              IF cached THEN [call EXCEPT !.outcome = "cached"]
              ELSE IF fault \in {"count", "products"} THEN [call EXCEPT !.outcome = "raised"]
              ELSE Returned(call, response, SEARCH_CACHE_TTL)
        /\ UNCHANGED <<db_products, db_users>>
        /\ UNCHANGED <<cacheVars, keyVars, monVars, dashVars, statusVars, loopVars, gosVars, taskVars, lateVars>>

UserFaults == { "none", "user_counts", "growth_rate", "retention_rate", "activity_trend" }

\* get_user_analytics(start_date, end_date, db), the period holding every user
GetUserAnalytics(cached, fault) ==
    LET call == StoreCall("get_user_analytics", <<>>, fault)
        user_counts == IF fault = "user_counts"
                       THEN [total_users |-> 0, active_users |-> 0, new_users |-> 0]
                       ELSE [total_users |-> db_users, active_users |-> db_users,
                             new_users |-> db_users]
        growth_rate == IF fault = "growth_rate" THEN 0
                       ELSE IF db_users > 0 THEN 100 ELSE 0
        retention_rate == IF fault = "retention_rate" THEN 0
                          ELSE IF db_users = 0 THEN 0 ELSE 100
        activity_trend == IF fault = "activity_trend" THEN <<>> ELSE << db_users >>
        response == [total_users |-> user_counts.total_users,
                     active_users |-> user_counts.active_users,
                     new_users |-> user_counts.new_users,
                     user_growth_rate |-> growth_rate,
                     retention_rate |-> retention_rate,
                     user_activity_trend |-> activity_trend]
    IN  /\ cached => fault = "none"
        /\ store_call' =
              IF cached THEN [call EXCEPT !.outcome = "cached"]
              ELSE Returned(call, response, ANALYTICS_CACHE_TTL)
        /\ UNCHANGED <<db_products, db_users>>
        /\ UNCHANGED <<cacheVars, keyVars, monVars, dashVars, statusVars, loopVars, gosVars, taskVars, lateVars>>

ProductFaults == { "none", "product_counts", "top_selling_products" }

\* get_product_analytics(start_date, end_date, db)
GetProductAnalytics(cached, fault) ==
    LET call == StoreCall("get_product_analytics", <<>>, fault)
        active == SelectSeq(db_products, LAMBDA row : row.is_active)
        product_counts == IF fault = "product_counts"
                          THEN [total_products |-> 0, active_products |-> 0]
                          ELSE [total_products |-> Len(db_products),
                                active_products |-> Len(active)]
        top_products == IF fault = "top_selling_products" THEN <<>>
                        ELSE [i \in 1..Len(active) |-> active[i].id]
        response == [total_products |-> product_counts.total_products,
                     active_products |-> product_counts.active_products,
                     top_selling_products |-> top_products]
    IN  /\ cached => fault = "none"
        /\ store_call' =
              IF cached THEN [call EXCEPT !.outcome = "cached"]
              ELSE Returned(call, response, ANALYTICS_CACHE_TTL)
        /\ UNCHANGED <<db_products, db_users>>
        /\ UNCHANGED <<cacheVars, keyVars, monVars, dashVars, statusVars, loopVars, gosVars, taskVars, lateVars>>

\* get_products(page, size, category_id) of the product service: the same
\* conditions in the page query and in the count query
GetProducts(request) ==
    LET call == StoreCall("get_products", request, "none")
        total == CountQuery(request)
        response == [items |-> PageQuery(request), total |-> total,
                     page |-> request.page, size |-> request.size,
                     pages |-> Pages(total, request.size)]
    IN  /\ store_call' = [call EXCEPT !.outcome = "returned", !.response = response]
        /\ UNCHANGED <<db_products, db_users>>
        /\ UNCHANGED <<cacheVars, keyVars, monVars, dashVars, statusVars, loopVars, gosVars, taskVars, lateVars>>

\* a row is added to the products table
InsertProduct(row) ==
    /\ Len(db_products) < MaxRows
    /\ db_products' = Append(db_products, row)
    /\ UNCHANGED <<db_users, store_call>>
    /\ UNCHANGED <<cacheVars, keyVars, monVars, dashVars, statusVars, loopVars, gosVars, taskVars, lateVars>>

\* a row is added to the users table
InsertUser ==
    /\ db_users < MaxUsers
    /\ db_users' = db_users + 1
    /\ UNCHANGED <<db_products, store_call>>
    /\ UNCHANGED <<cacheVars, keyVars, monVars, dashVars, statusVars, loopVars, gosVars, taskVars, lateVars>>

\* the tables are filled, then a service is called
StoreNext ==
    \/ \E row \in ProductRows(Len(db_products) + 1) :
          store_call.op = "none" /\ InsertProduct(row)
    \/ store_call.op = "none" /\ InsertUser
    \/ \E request \in SearchRequests, cached \in BOOLEAN, fault \in SearchFaults :
          store_call.op = "none" /\ SearchProducts(request, cached, fault)
    \/ \E cached \in BOOLEAN, fault \in UserFaults :
          store_call.op = "none" /\ GetUserAnalytics(cached, fault)
    \/ \E cached \in BOOLEAN, fault \in ProductFaults :
          store_call.op = "none" /\ GetProductAnalytics(cached, fault)
    \/ \E request \in SearchRequests :
          store_call.op = "none" /\ GetProducts(request)

StoreSpecInit == Init /\ utc_offset = 0

SpecStore == StoreSpecInit /\ [][StoreNext]_vars

\* C13: when a data-store query made on behalf of search_products,
\* get_user_analytics or get_product_analytics fails, the operation fails to
\* its caller (it returns no result built from default values) and writes no
\* result for the request to the cache.
C13_StoreFaultsPropagate ==
    store_call.fault # "none" =>
        /\ store_call.outcome = "raised"
        /\ ~store_call.set_called

\* the rows of a table a request's filter selects, in table order
MatchingRows(table, request) ==
    SelectSeq(table,
              LAMBDA row : /\ row.is_active
                           /\ request.category_id \in {<<>>, <<0>>}
                                 \/ row.category_id = request.category_id[1])

\* ceil(total / size)
Ceil(total, size) == CHOOSE k \in 0..total : k * size >= total /\ (k - 1) * size < total

PageOf(call) ==
    IF call.op = "search_products" THEN call.response.products ELSE call.response.items

C16_PastEndReached ==
    /\ store_call.op = "get_products"
    /\ store_call.request.page = 3
    /\ store_call.request.size = 2
    /\ store_call.response.total = 2
    /\ store_call.response.items = <<>>
    /\ Len(db_products) = 3

\* the snapshot was taken of a monitor holding no observation
ZeroObservations ==
    /\ Snapshot.system_info.total_metrics = 0
    /\ Snapshot.endpoints = EmptyDict
    /\ Snapshot.cache_hit_rates = EmptyDict
    /\ Snapshot.database_performance.total_queries = 0

\* a ratio <<num, den>> that is 0
IsZero(ratio) == ratio[1] = 0

\* C14: get_metrics() on a monitor with zero observations returns without an
\* error, and every rate and average of the snapshot is reported as 0: the
\* response-time percentiles and average, the database average_time and
\* slow_query_rate, the cache hit rates and the endpoint rates.
C14_ZeroObservationsAllZero ==
    (Updated /\ ZeroObservations) =>
        /\ "error" \notin DOMAIN Snapshot
        /\ IsZero(Snapshot.database_performance.average_time)
        /\ IsZero(Snapshot.database_performance.slow_query_rate)
        /\ \A c \in DOMAIN Snapshot.cache_hit_rates : IsZero(Snapshot.cache_hit_rates[c])
        /\ \A e \in DOMAIN Snapshot.error_rates : IsZero(Snapshot.error_rates[e])
        /\ \A k \in {"p50", "p90", "p95", "p99"} :
              /\ k \in DOMAIN Snapshot.response_times
              /\ Snapshot.response_times[k] = 0
        /\ "avg" \in DOMAIN Snapshot.response_times
        /\ IsZero(Snapshot.response_times["avg"])

\* _percentile(data, percentile) of the benchmark: the order statistic at
\* 0-based index min(int(len * percentile / 100), len - 1) of the sorted data
OrderStatistic(data, percentile) ==
    LET sorted_data == SortSeq(data, LAMBDA a, b : a < b)
        index == (Len(sorted_data) * percentile) \div 100
    IN  sorted_data[Min(index, Len(sorted_data) - 1) + 1]

BufferTimes == [i \in 1..Len(metrics) |-> metrics[i].response_time]

TenValues == [i \in 1..10 |-> 100 * i]

MaxBufferLen == 100

\* C15: for the n response times in the buffer, get_metrics() reports p50,
\* p90, p95 and p99 as the order statistics of the sorted values; for the ten
\* values 0.1, 0.2, ..., 1.0 the p50 is that order statistic (0.6); and for
\* every n >= 1 the index used is inside the sorted list.
C15_Percentiles ==
    /\ PercentileOf(TenValues, 50) = OrderStatistic(TenValues, 50)
    /\ PercentileOf(TenValues, 50) = 600
    /\ \A n \in 1..MaxBufferLen : \A pct \in {50, 90, 95, 99} :
          (n * pct) \div 100 \in 0..(n - 1)
    /\ (Updated /\ metrics # <<>>) =>
          /\ Snapshot.response_times.p50 = OrderStatistic(BufferTimes, 50)
          /\ Snapshot.response_times.p90 = OrderStatistic(BufferTimes, 90)
          /\ Snapshot.response_times.p95 = OrderStatistic(BufferTimes, 95)
          /\ Snapshot.response_times.p99 = OrderStatistic(BufferTimes, 99)

\* a snapshot of two different response times, recorded larger first
C15_Witness ==
    /\ Updated
    /\ Len(metrics) = 2
    /\ metrics[1].response_time > metrics[2].response_time
    /\ Snapshot.response_times.p50 = metrics[1].response_time

\* C17: after any sequence of record_request calls and resets, every endpoint
\* has errors <= total_requests, cache_hits <= total_requests, status_codes
\* counts that sum to total_requests, and min_response_time <=
\* max_response_time once total_requests >= 1.
C17_EndpointStats ==
    \A e \in DOMAIN endpoint_stats :
        LET stats == endpoint_stats[e]
        IN  /\ stats.errors <= stats.total_requests
            /\ stats.cache_hits <= stats.total_requests
            /\ SumValues(stats.status_codes) = stats.total_requests
            /\ stats.total_requests >= 1 => stats.min_response_time <= stats.max_response_time

\* after a reset, an endpoint took a cached request that failed and a slow
\* one that succeeded
C17_Witness ==
    /\ start_time > 0
    /\ \E e \in DOMAIN endpoint_stats :
          /\ endpoint_stats[e].total_requests = 2
          /\ endpoint_stats[e].errors = 1
          /\ endpoint_stats[e].cache_hits = 1
          /\ DOMAIN endpoint_stats[e].status_codes = {200, 500}
          /\ endpoint_stats[e].min_response_time < endpoint_stats[e].max_response_time

(***************************************************************************)
(* CacheService.get_or_set.                                                *)
(***************************************************************************)

\* what get(key) returns and leaves behind, as get_or_set's first step;
\* fault = the Redis round trip raises
GetOutcome(key, fault) ==
    LET inLocal  == key \in DOMAIN local_cache
        localHit == inLocal /\ local_cache[key].expires_at > now
        purged   == IF inLocal /\ ~localHit THEN Del(local_cache, {key}) ELSE local_cache
        reach    == ~localHit /\ redis_client
        found    == RedisLive(_get_cache_key(key))
        data     == _deserialize(RedisGet(_get_cache_key(key)))
    IN  IF localHit
        THEN [value |-> local_cache[key].data, local |-> local_cache,
              stats |-> Bump(cache_stats, "hits"), reach |-> FALSE]
        ELSE IF reach /\ fault
        THEN [value |-> None, local |-> purged, stats |-> OnError(cache_stats), reach |-> TRUE]
        ELSE IF reach /\ found
        THEN [value |-> data,
              local |-> Put(purged, key, [data |-> data, expires_at |-> RepopulateExpiry]),
              stats |-> Bump(cache_stats, "hits"), reach |-> TRUE]
        ELSE [value |-> None, local |-> purged, stats |-> Bump(cache_stats, "misses"),
              reach |-> reach]

ProducerCalledAlways(cached_value) == 1

\* calls of factory_func: none if cached_value is not None, else one
ProducerCalls(cached_value) == IF cached_value # None THEN 0 ELSE 1

\* get_or_set(key, factory_func, ttl), factory_func returning produced;
\* get_fault, set_fault = the Redis round trip of its get, of its set, raises
GetOrSet(key, produced, ttl, get_fault, set_fault) ==
    LET got   == GetOutcome(key, get_fault)
        calls == ProducerCalls(got.value)
        value == IF calls = 0 THEN got.value ELSE produced
        t     == EffectiveTtl(ttl)
        fk    == _get_cache_key(key)
    IN  /\ initialized /\ nops < MaxOps
        /\ get_fault => got.reach
        /\ set_fault => (calls > 0 /\ redis_client)
        /\ nops' = nops + 1
        /\ nGets' = nGets + 1
        /\ nReturned' = nReturned + (IF got.value # None THEN 1 ELSE 0)
        /\ IF calls = 0
           THEN /\ local_cache' = got.local
                /\ redis_db' = redis_db
                /\ cache_stats' = got.stats
                /\ invalidated' = invalidated
                /\ last' = [Call("get", key) EXCEPT !.result = got.value,
                                                    !.reached_redis = got.reach]
           ELSE /\ local_cache' = Put(got.local, key,
                                      [data |-> value, expires_at |-> SetLocalExpiry(t)])
                /\ redis_db' = IF redis_client /\ ~set_fault
                               THEN RedisSetex(redis_db, fk, t, _serialize(value))
                               ELSE redis_db
                /\ cache_stats' = IF set_fault THEN OnError(got.stats)
                                  ELSE Bump(got.stats, "sets")
                /\ invalidated' = invalidated \ {key}
                /\ last' = [Call("set", key) EXCEPT
                              !.keys = {key}, !.value = value, !.fault = set_fault,
                              !.reached_redis = redis_client,
                              !.result = IF set_fault THEN "False" ELSE "True"]
        /\ gos' = [key |-> key, ttl |-> ttl, at |-> now, cached_value |-> got.value,
                   produced |-> produced, producer_calls |-> calls, returned |-> value,
                   set_reached_redis |-> calls > 0 /\ redis_client /\ ~set_fault,
                   local_after |-> IF key \in DOMAIN local_cache'
                                   THEN << local_cache'[key] >> ELSE <<>>,
                   redis_after |-> IF fk \in DOMAIN redis_db'
                                   THEN << redis_db'[fk] >> ELSE <<>>]
        /\ UNCHANGED <<now, initialized, redis_client>>
        /\ UNCHANGED <<keyVars, monVars, dashVars, statusVars, loopVars, storeVars, taskVars, lateVars>>

GosNext ==
    \/ \E ok \in BOOLEAN : Initialize(ok)
    \/ \E v \in Values, t \in Ttls, gf \in BOOLEAN, sf \in BOOLEAN :
          GetOrSet(<<"product", ":", "1">>, v, t, gf, sf)
    \/ Tick

GosSpecInit == Init /\ utc_offset = 0

SpecGetOrSet == GosSpecInit /\ [][GosNext]_vars

\* C18: get_or_set invokes the producer at most once per call: not at all
\* when get(key) returns a value, which is then returned, and exactly once
\* otherwise; on a miss it returns the producer's result and stores it under
\* key with the given ttl (the default ttl if none is given), as set does:
\* in the local tier, and in Redis when the write reaches it.
C18_GetOrSet ==
    gos.key # <<>> =>
        /\ gos.producer_calls <= 1
        /\ gos.cached_value # "None" =>
              /\ gos.producer_calls = 0
              /\ gos.returned = gos.cached_value
        /\ gos.cached_value = "None" =>
              /\ gos.producer_calls = 1
              /\ gos.returned = gos.produced
              /\ gos.local_after # <<>>
              /\ gos.local_after[1].data = gos.produced
              /\ gos.local_after[1].expires_at =
                    gos.at + Min(IF gos.ttl = 0 THEN 3600 ELSE gos.ttl, 300)
              /\ gos.set_reached_redis =>
                    /\ gos.redis_after # <<>>
                    /\ _deserialize(gos.redis_after[1].data) = gos.produced
                    /\ gos.redis_after[1].expires_at =
                          gos.at + (IF gos.ttl = 0 THEN 3600 ELSE gos.ttl)

\* after the clock advanced, a call missed, called the producer and wrote its
\* value to both tiers with a ttl above CACHE_SHORT_TTL
C18_Witness ==
    /\ gos.cached_value = "None"
    /\ gos.producer_calls = 1
    /\ gos.set_reached_redis
    /\ gos.ttl = CACHE_SHORT_TTL + TickStep
    /\ now > 0

\* a call returned a value another call had cached, without the producer
C18_HitReached ==
    /\ gos.cached_value # "None"
    /\ gos.producer_calls = 0
    /\ gos.produced # gos.returned

(***************************************************************************)
(* The background tasks: _monitor_system_resources, _cleanup_old_metrics   *)
(* and start_monitoring_loop.                                              *)
(***************************************************************************)

\* the try body ended with asyncio.sleep(interval)
Sleeping(interval) == [pc |-> "sleep", delay |-> interval, raised |-> FALSE]

OnTaskErrorEnds(backoff) == [pc |-> "done", delay |-> 0, raised |-> TRUE]

\* except Exception: log, then asyncio.sleep(backoff)
OnTaskError(backoff) == [pc |-> "backoff", delay |-> backoff, raised |-> TRUE]

MonitorFaults == { "none", "virtual_memory", "cpu_percent" }

\* one iteration of _monitor_system_resources; fault = the psutil call that
\* raises
MonitorTask(memory_percent, cpu_percent, fault) ==
    /\ tasks["monitor"].pc = "iteration"
    /\ memory_usage' = IF fault = "virtual_memory" THEN memory_usage
                       ELSE LastN(Append(memory_usage, [timestamp |-> UtcNow,
                                                        used_percent |-> memory_percent]),
                                  TrendCapacity)
    /\ cpu_usage' = IF fault # "none" THEN cpu_usage
                    ELSE LastN(Append(cpu_usage, [timestamp |-> UtcNow,
                                                  cpu_percent |-> cpu_percent]),
                               TrendCapacity)
    /\ tasks' = [tasks EXCEPT !["monitor"] = IF fault = "none" THEN Sleeping(30)
                                             ELSE OnTaskError(60)]
    /\ UNCHANGED <<mnow, utc_offset, metrics, endpoint_stats, mon_cache_stats, error_rates,
                   throughput, database_performance, start_time, last_cleanup, nrec,
                   sinceRebuild, nsamples>>
    /\ UNCHANGED <<cacheVars, keyVars, dashVars, statusVars, loopVars, storeVars, gosVars, lateVars>>

CleanupFaults == { "none", "metrics", "memory_usage" }

\* one iteration of _cleanup_old_metrics; fault = the rebuild that raises
CleanupTask(fault) ==
    LET current_time == mnow
        cutoff_time == current_time - RETENTION
        cutoff_datetime == FromTimestamp(cutoff_time)
    IN  /\ tasks["cleanup"].pc = "iteration"
        /\ IF fault = "metrics"
           THEN UNCHANGED <<metrics, sinceRebuild>>
           ELSE /\ metrics' = DequeOf(Filter(metrics,
                                   LAMBDA m : TimestampOf(m.timestamp) > cutoff_time))
                /\ sinceRebuild' = 0
        /\ IF fault = "none"
           THEN /\ memory_usage' = Filter(memory_usage,
                                          LAMBDA m : m.timestamp > cutoff_datetime)
                /\ cpu_usage' = Filter(cpu_usage, LAMBDA c : c.timestamp > cutoff_datetime)
                /\ last_cleanup' = current_time
           ELSE UNCHANGED <<memory_usage, cpu_usage, last_cleanup>>
        /\ tasks' = [tasks EXCEPT !["cleanup"] = IF fault = "none" THEN Sleeping(300)
                                                 ELSE OnTaskError(600)]
        /\ UNCHANGED <<mnow, utc_offset, endpoint_stats, mon_cache_stats, error_rates,
                       throughput, database_performance, start_time, nrec, nsamples>>
        /\ UNCHANGED <<cacheVars, keyVars, dashVars, statusVars, loopVars, storeVars, gosVars, lateVars>>

DashboardFaults == { "none", "get_metrics", "get_stats", "sleep" }

\* one iteration of start_monitoring_loop; point = the step that raises:
\* inside update_dashboard_data, which catches it, or asyncio.sleep(5)
DashboardTask(point, memory_percent, cpu_percent) ==
    LET performance_metrics == IF point = "get_metrics" THEN get_metrics_raising
                               ELSE get_metrics(memory_percent, cpu_percent)
        stats == get_stats
        system_metrics == _get_system_metrics(TRUE, memory_percent, cpu_percent)
        alerts == _check_alerts(performance_metrics, stats, system_metrics)
    IN  /\ tasks["dashboard"].pc = "iteration"
        /\ IF point = "get_stats"
           THEN UNCHANGED dashboard_data
           ELSE dashboard_data' =
                  [last_update |-> <<UtcNow>>,
                   metrics |-> [performance |-> performance_metrics, cache |-> stats,
                                system |-> system_metrics],
                   alerts |-> alerts,
                   system_status |-> _determine_system_status(performance_metrics, alerts)]
        /\ tasks' = [tasks EXCEPT !["dashboard"] = IF point = "sleep" THEN OnTaskError(10)
                                                   ELSE Sleeping(5)]
        /\ UNCHANGED <<cacheVars, keyVars, monVars, statusVars, loopVars, storeVars, gosVars, lateVars>>

\* the asyncio.sleep a task waits in returns
TaskWake(t) ==
    /\ tasks[t].pc \in {"sleep", "backoff"}
    /\ tasks' = [tasks EXCEPT ![t].pc = "iteration", ![t].delay = 0]
    /\ UNCHANGED <<cacheVars, keyVars, monVars, dashVars, statusVars, loopVars, storeVars,
                   gosVars, lateVars>>

MonitorStep == \E f \in MonitorFaults : MonitorTask(95, 90, f)

CleanupStep == \E f \in CleanupFaults : CleanupTask(f)

DashboardStep == \E point \in DashboardFaults : DashboardTask(point, 95, 90)

TaskNext ==
    \/ MonitorStep
    \/ CleanupStep
    \/ DashboardStep
    \/ \E t \in Tasks : TaskWake(t)
    \/ MonTick

TaskSpecInit == Init /\ utc_offset = 0

\* the event loop runs every task that is ready, and every timer fires
TaskFairness ==
    /\ WF_vars(MonitorStep)
    /\ WF_vars(CleanupStep)
    /\ WF_vars(DashboardStep)
    /\ \A t \in Tasks : WF_vars(TaskWake(t))

SpecTasks == TaskSpecInit /\ [][TaskNext]_vars /\ TaskFairness

\* C19: the three background tasks survive failures: an iteration that raises
\* an exception does not end its task; the task waits its backoff (60, 600
\* and 10 seconds) and then starts another iteration, so each task starts and
\* completes iterations infinitely often, whatever state it is in.
C19_LoopsSurvive ==
    /\ [](\A t \in Tasks : tasks[t].pc \in {"iteration", "sleep", "backoff"})
    /\ [](/\ tasks["monitor"].pc = "backoff" => tasks["monitor"].delay = 60
          /\ tasks["cleanup"].pc = "backoff" => tasks["cleanup"].delay = 600
          /\ tasks["dashboard"].pc = "backoff" => tasks["dashboard"].delay = 10)
    /\ [](\A t \in Tasks : tasks[t].raised /\ tasks[t].pc # "iteration"
                               => tasks[t].pc = "backoff")
    /\ \A t \in Tasks : []<>(tasks[t].pc = "iteration") /\ []<>(tasks[t].pc # "iteration")

\* every task is back at an iteration after one that raised
C19_Witness ==
    \A t \in Tasks : tasks[t].raised /\ tasks[t].pc = "iteration"

(***************************************************************************)
(* Request tasks, a cleanup pass and get_metrics reads on one event loop.  *)
(* record_request is a plain function, and neither the rebuild of          *)
(* _cleanup_old_metrics nor get_metrics awaits between reading and writing *)
(* the buffer: each is one step, and the steps interleave in any order.    *)
(***************************************************************************)
ConcNext ==
    \/ \E e \in Endpoints, sc \in StatusCodes, r \in {Cached, SlowQuery} :
          RecordRequest(e, r[1], sc, r[2], r[3], r[4])
    \/ CleanupOldMetrics
    \/ UpdateDashboardData(TRUE, 80, 80)
    \/ MonTick

SpecConc == Init /\ [][ConcNext]_vars

\* the observations of the buffer that are younger than the retention window
\* and among the capacity most recent ones after a step are in the buffer
\* after it, once each, and so is the observation the step recorded
KeptByStep ==
    /\ \A i \in 1..Len(metrics) :
          (mnow' - metrics[i].timestamp < RETENTION /\ metrics[i].id > nrec' - Capacity)
              => Cardinality({ j \in 1..Len(metrics') : metrics'[j] = metrics[i] }) = 1
    /\ nrec' = nrec + 1 =>
          Cardinality({ j \in 1..Len(metrics') : metrics'[j].id = nrec' }) = 1
    /\ \A j, k \in 1..Len(metrics') : metrics'[j].id = metrics'[k].id => j = k

\* C20: no observation is lost or duplicated when record_request calls
\* interleave with a cleanup pass and get_metrics reads: no step removes from
\* the buffer an observation that is younger than the retention window and
\* within the capacity, and every recorded observation enters it once.
C20_NoObservationLost == [][KeptByStep]_vars

\* the same on a host whose local time is UTC
C20_HoldsUnderUtc == [][utc_offset = 0 => KeptByStep]_vars

(***************************************************************************)
(* PerformanceMonitor.reset_metrics, one statement per step, among the     *)
(* other tasks of the event loop.                                          *)
(***************************************************************************)
ResetStatements == 10

ResetAwaitsEachStatement(statement) == TRUE

\* whether reset_metrics awaits after its statement: it is a plain function
\* with no await, called from a coroutine
ResetAwaits(statement) == FALSE

\* the event loop runs another task only while no reset_metrics is running,
\* or while the running one is suspended
CanRun == reset_pc = 0 \/ (reset_pc < ResetStatements /\ ResetAwaits(reset_pc))

\* the next statement of reset_metrics; the first one starts the call
ResetStatement ==
    LET k == reset_pc + 1
    IN  /\ reset_pc < ResetStatements
        /\ reset_pc' = k
        /\ metrics' = IF k = 1 THEN <<>> ELSE metrics
        /\ sinceRebuild' = IF k = 1 THEN 0 ELSE sinceRebuild
        /\ endpoint_stats' = IF k = 2 THEN EmptyDict ELSE endpoint_stats
        /\ mon_cache_stats' = IF k = 3 THEN EmptyDict ELSE mon_cache_stats
        /\ error_rates' = IF k = 4 THEN EmptyDict ELSE error_rates
        /\ throughput' = IF k = 5 THEN EmptyDict ELSE throughput
        /\ database_performance' =
              IF k = 6 THEN [total_queries |-> 0, total_time |-> 0, slow_queries |-> 0]
              ELSE database_performance
        /\ memory_usage' = IF k = 7 THEN <<>> ELSE memory_usage
        /\ cpu_usage' = IF k = 8 THEN <<>> ELSE cpu_usage
        /\ start_time' = IF k = 9 THEN mnow ELSE start_time
        /\ last_cleanup' = IF k = 10 THEN mnow ELSE last_cleanup
        /\ UNCHANGED <<mnow, utc_offset, nrec, nsamples, observed>>
        /\ UNCHANGED <<cacheVars, keyVars, dashVars, statusVars, loopVars, storeVars,
                       gosVars, taskVars, rl, auth, owner, stats_read, race>>

\* reset_metrics returns, and its caller returns the response
ResetReturn ==
    /\ reset_pc = ResetStatements
    /\ reset_pc' = 0
    /\ UNCHANGED <<cacheVars, keyVars, monVars, dashVars, statusVars, loopVars, storeVars,
                   gosVars, taskVars, observed, rl, auth, owner, stats_read, race>>

MaxReads == 2

\* another task reads the monitor, as get_metrics does
Observe ==
    /\ CanRun
    /\ observed.reads < MaxReads
    /\ observed' = [reads |-> observed.reads + 1,
                    during_reset |-> reset_pc \in 1..(ResetStatements - 1)]
    /\ UNCHANGED <<cacheVars, keyVars, monVars, dashVars, statusVars, loopVars, storeVars,
                   gosVars, taskVars, reset_pc, rl, auth, owner, stats_read, race>>

\* requests, cache hits and resource samples are recorded by other tasks
ResetNext ==
    \/ \E e \in Endpoints, r \in {SlowQuery} :
          CanRun /\ RecordRequest(e, r[1], 500, r[2], r[3], r[4])
    \/ \E c \in CacheTypes : CanRun /\ RecordCacheHit(c)
    \/ CanRun /\ MonitorSystemResources(95, 90)
    \/ ResetStatement
    \/ ResetReturn
    \/ Observe

ResetSpecInit == Init /\ utc_offset = 0

SpecReset == ResetSpecInit /\ [][ResetNext]_vars

\* get_metrics() on a freshly constructed monitor, apart from its timestamps
\* and system readings
FreshSnapshot ==
    [response_times |-> EmptyDict, endpoints |-> EmptyDict, cache_hit_rates |-> EmptyDict,
     error_rates |-> EmptyDict, throughput |-> EmptyDict,
     database_performance |-> [total_queries |-> 0, total_time |-> 0, average_time |-> Zero,
                               slow_queries |-> 0, slow_query_rate |-> Zero],
     memory_trend |-> <<>>, cpu_trend |-> <<>>, total_metrics |-> 0, uptime_seconds |-> 0]

SnapshotNow ==
    LET m == get_metrics(95, 90)
    IN  [response_times |-> m.response_times, endpoints |-> m.endpoints,
         cache_hit_rates |-> m.cache_hit_rates, error_rates |-> m.error_rates,
         throughput |-> m.throughput, database_performance |-> m.database_performance,
         memory_trend |-> m.memory_usage.trend, cpu_trend |-> m.cpu_usage.trend,
         total_metrics |-> m.system_info.total_metrics,
         uptime_seconds |-> m.system_info.uptime_seconds]

\* C21: reset_metrics clears everything atomically: when it has run, the
\* buffer, endpoint_stats, cache_stats, error_rates, throughput, memory_usage
\* and cpu_usage are empty, database_performance is all zeros and
\* get_metrics() equals the snapshot of a fresh monitor; no other task reads
\* the monitor while only part of it is cleared.
C21_ResetAtomic ==
    /\ reset_pc = ResetStatements =>
          /\ metrics = <<>> /\ memory_usage = <<>> /\ cpu_usage = <<>>
          /\ DOMAIN endpoint_stats = {} /\ DOMAIN mon_cache_stats = {}
          /\ DOMAIN error_rates = {} /\ DOMAIN throughput = {}
          /\ database_performance = [total_queries |-> 0, total_time |-> 0,
                                     slow_queries |-> 0]
          /\ SnapshotNow = FreshSnapshot
    /\ ~observed.during_reset

\* a reset ran to its end on a monitor holding observations, an error rate,
\* cache hits and samples, after which another task read the monitor
C21_Witness ==
    /\ reset_pc = 0
    /\ nrec > 0 /\ nsamples > 0
    /\ metrics = <<>> /\ DOMAIN endpoint_stats = {} /\ memory_usage = <<>>
    /\ observed.reads > 0
    /\ start_time = mnow

(***************************************************************************)
(* RateLimiter.is_allowed and rate_limit_middleware of the API gateway,    *)
(* one Redis command per step, for one client IP.  The gateway is one      *)
(* process and is_allowed is a plain function: one call is in flight at a  *)
(* time, while the clock of Redis runs on.                                 *)
(***************************************************************************)
max_requests == 2       \* 100 in the source
window == 60
MaxCalls == 4
RlTickStep == 30
RlMaxTicks == 4

\* the counter key as Redis has it now: gone once its time to live is over
RlLive == rl.key # <<>> /\ (rl.key[1].expires_at = -1 \/ rl.key[1].expires_at > rl.now)

\* the answer of the middleware to the request whose call ends; at = when
\* its call read the counter, done = when its call ended
Answer(allowed, created) ==
    [at |-> rl.call.at, done |-> rl.now, allowed |-> allowed, created |-> created,
     status |-> IF allowed THEN 200 ELSE 429, forwarded |-> allowed]

\* current = self.redis.get(key)
RlGet ==
    /\ rl.call.pc = "idle"
    /\ Len(rl.hist) < MaxCalls
    /\ rl' = [rl EXCEPT !.call = [pc |-> "got", at |-> rl.now,
                                  current |-> IF RlLive THEN << rl.key[1].value >> ELSE <<>>]]
    /\ UNCHANGED <<cacheVars, keyVars, monVars, dashVars, statusVars, loopVars, storeVars,
                   gosVars, taskVars, resetVars, auth, owner, stats_read, race>>

\* current is None: self.redis.setex(key, self.window, 1); return True
RlSetex ==
    /\ rl.call.pc = "got" /\ rl.call.current = <<>>
    /\ rl' = [rl EXCEPT !.key = << [value |-> 1, expires_at |-> rl.now + window] >>,
                        !.call = [pc |-> "idle", current |-> <<>>, at |-> 0],
                        !.hist = Append(@, Answer(TRUE, TRUE))]
    /\ UNCHANGED <<cacheVars, keyVars, monVars, dashVars, statusVars, loopVars, storeVars,
                   gosVars, taskVars, resetVars, auth, owner, stats_read, race>>

\* int(current) >= self.max_requests: return False, answered 429
RlDeny ==
    /\ rl.call.pc = "got" /\ rl.call.current # <<>>
    /\ rl.call.current[1] >= max_requests
    /\ rl' = [rl EXCEPT !.call = [pc |-> "idle", current |-> <<>>, at |-> 0],
                        !.hist = Append(@, Answer(FALSE, FALSE))]
    /\ UNCHANGED <<cacheVars, keyVars, monVars, dashVars, statusVars, loopVars, storeVars,
                   gosVars, taskVars, resetVars, auth, owner, stats_read, race>>

\* INCR of Redis: adds one to a live key and leaves its time to live; sets a
\* missing key to 1 with no time to live
RedisIncr(key) ==
    IF RlLive THEN << [key[1] EXCEPT !.value = @ + 1] >>
    ELSE << [value |-> 1, expires_at |-> -1] >>

\* self.redis.incr(key); return True
RlIncr ==
    /\ rl.call.pc = "got" /\ rl.call.current # <<>>
    /\ rl.call.current[1] < max_requests
    /\ rl' = [rl EXCEPT !.key = RedisIncr(rl.key),
                        !.call = [pc |-> "idle", current |-> <<>>, at |-> 0],
                        !.hist = Append(@, Answer(TRUE, FALSE))]
    /\ UNCHANGED <<cacheVars, keyVars, monVars, dashVars, statusVars, loopVars, storeVars,
                   gosVars, taskVars, resetVars, auth, owner, stats_read, race>>

\* time passes, also during a Redis round trip
RlTick ==
    /\ rl.now < RlMaxTicks * RlTickStep
    /\ rl' = [rl EXCEPT !.now = @ + RlTickStep]
    /\ UNCHANGED <<cacheVars, keyVars, monVars, dashVars, statusVars, loopVars, storeVars,
                   gosVars, taskVars, resetVars, auth, owner, stats_read, race>>

RlNext == RlGet \/ RlSetex \/ RlDeny \/ RlIncr \/ RlTick

RlSpecInit == Init /\ utc_offset = 0

SpecRateLimit == RlSpecInit /\ [][RlNext]_vars

AllowedIn(from, to) ==
    Cardinality({ j \in 1..Len(rl.hist) : /\ rl.hist[j].allowed
                                          /\ rl.hist[j].done >= from
                                          /\ rl.hist[j].done < to })

\* in a window opened by a request that found no counter, at most
\* max_requests requests are let through
C22_AtMostPerWindow ==
    \A i \in 1..Len(rl.hist) :
        rl.hist[i].created =>
            AllowedIn(rl.hist[i].done, rl.hist[i].done + window) <= max_requests

\* C22: for one client IP at most max_requests requests of one window of 60
\* seconds are let through and every further one is answered 429 and not
\* forwarded; after the window the client is let through again: a request is
\* refused only if max_requests requests were let through in the 60 seconds
\* before it.
C22_RateLimit ==
    /\ C22_AtMostPerWindow
    /\ \A i \in 1..Len(rl.hist) :
          ~rl.hist[i].allowed =>
              /\ rl.hist[i].status = 429 /\ ~rl.hist[i].forwarded
              /\ AllowedIn(rl.hist[i].at - window + 1, rl.hist[i].at + 1) >= max_requests

(***************************************************************************)
(* Routes of the API gateway: get_auth_token, authenticate_user and the    *)
(* forwarding to the user, product and order services.                     *)
(***************************************************************************)
MaxGatewayRequests == 2

\* Authorization headers: absent, another scheme, "Bearer " with nothing
\* after it, and two bearer tokens
Authorizations == { <<>>, <<"Basic", "t1">>, <<"Bearer", "">>, <<"Bearer", "t1">>,
                    <<"Bearer", "t2">> }

\* the tokens for which GET /auth/me of the user service answers 200
AcceptedTokens == { "t1" }

Routes == { "/users/{path}", "/products/{path}", "/orders/{path}", "/orders" }

ProtectedRoutes == { "/users/{path}", "/orders/{path}", "/orders" }

\* get_auth_token: the text after "Bearer ", or None
get_auth_token(authorization) ==
    IF authorization # <<>> /\ authorization[1] = "Bearer" THEN authorization[2] ELSE "None"

\* truthiness of a token: None and "" are falsy
Truthy(token) == token # "None" /\ token # ""

\* authenticate_user: the user's data if /auth/me answers 200, None if it
\* answers otherwise or the call raises
authenticate_user(token, fault) ==
    IF ~fault /\ token \in AcceptedTokens THEN << [id |-> 1, token |-> token] >> ELSE <<>>

ServiceOf(route) ==
    IF route = "/users/{path}" THEN "user-service"
    ELSE IF route = "/products/{path}" THEN "product-service"
    ELSE "order-service"

\* the answer of a route: the status the gateway raises, or the forwarding
Handled(route, authorization, status, forwarded, user_data) ==
    [route |-> route, authorization |-> authorization, status |-> status,
     forwarded_to |-> IF forwarded THEN ServiceOf(route) ELSE "none",
     user_data |-> user_data]

\* user_routes, product_routes, order_routes and order_list_route
RouteAnswer(route, authorization, fault) ==
    LET token == get_auth_token(authorization)
        user_data == authenticate_user(token, fault)
    IN  IF route \in {"/orders/{path}", "/orders"}
        THEN IF ~Truthy(token) THEN Handled(route, authorization, 401, FALSE, <<>>)
             ELSE IF user_data = <<>> THEN Handled(route, authorization, 401, FALSE, <<>>)
             ELSE Handled(route, authorization, 0, TRUE, user_data)
        ELSE IF route = "/users/{path}"
        THEN IF ~Truthy(token) THEN Handled(route, authorization, 0, TRUE, <<>>)
             ELSE IF user_data = <<>> THEN Handled(route, authorization, 401, FALSE, <<>>)
             ELSE Handled(route, authorization, 0, TRUE, user_data)
        ELSE Handled(route, authorization, 0, TRUE,
                     IF Truthy(token) THEN user_data ELSE <<>>)

\* one request through a route; fault = the call to the user service raises
GatewayRequest(route, authorization, fault) ==
    /\ Len(auth) < MaxGatewayRequests
    /\ fault => Truthy(get_auth_token(authorization))
    /\ auth' = Append(auth, RouteAnswer(route, authorization, fault))
    /\ UNCHANGED <<cacheVars, keyVars, monVars, dashVars, statusVars, loopVars, storeVars,
                   gosVars, taskVars, resetVars, rl, owner, stats_read, race>>

AuthNext ==
    \E route \in Routes, authorization \in Authorizations, fault \in BOOLEAN :
        GatewayRequest(route, authorization, fault)

AuthSpecInit == Init /\ utc_offset = 0

SpecAuth == AuthSpecInit /\ [][AuthNext]_vars

\* the request carries a bearer token that the user service accepts
Authenticated(h) ==
    /\ h.authorization # <<>>
    /\ h.authorization[1] = "Bearer"
    /\ h.authorization[2] \in AcceptedTokens
    /\ h.user_data # <<>>

\* C23: a request to a protected route (/users/{path}, /orders,
\* /orders/{path}) without a bearer token, or with a token the user service
\* does not accept, is answered 401 by the gateway and not forwarded.
C23_AuthRequired ==
    \A i \in 1..Len(auth) :
        (auth[i].route \in ProtectedRoutes /\ ~Authenticated(auth[i])) =>
            auth[i].status = 401 /\ auth[i].forwarded_to = "none"

\* the same for the order routes alone
C23_OrdersRequireAuth ==
    \A i \in 1..Len(auth) :
        (auth[i].route \in {"/orders/{path}", "/orders"} /\ ~Authenticated(auth[i])) =>
            auth[i].status = 401 /\ auth[i].forwarded_to = "none"

(***************************************************************************)
(* The task endpoints get_task, create_task, update_task and delete_task   *)
(* over the tasks and projects tables.                                     *)
(***************************************************************************)
MaxTasks == 2
MaxTaskCalls == 4

TaskUsers == { 1, 2 }

\* projects.owner_id: project 1 belongs to user 1, project 2 to user 2
ProjectOwner == [project \in {1, 2} |-> project]

TaskIds == 1..(MaxTasks + 1)

SelectAnyTask(table, task_id, current_user) == task_id \in DOMAIN table

\* select(Task).join(Project).where(Task.id == task_id,
\* Project.owner_id == current_user.id), scalar_one_or_none: found or not
SelectOwned(table, task_id, current_user) ==
    /\ task_id \in DOMAIN table
    /\ ProjectOwner[table[task_id].project_id] = current_user

TaskCall(op, current_user, task_id, status, detail) ==
    [op |-> op, user |-> current_user, task_id |-> task_id, status |-> status,
     detail |-> detail, exists |-> task_id \in DOMAIN owner.tasks,
     project_owner |-> IF task_id \in DOMAIN owner.tasks
                       THEN ProjectOwner[owner.tasks[task_id].project_id] ELSE 0,
     was_deleted |-> task_id \in owner.deleted, before |-> owner.tasks]

OwnerFrame ==
    UNCHANGED <<cacheVars, keyVars, monVars, dashVars, statusVars, loopVars, storeVars,
                gosVars, taskVars, resetVars, rl, auth, stats_read, race>>

\* create_task in a project the user owns, else 404 "Project not found"
CreateTask(current_user, project_id, title) ==
    /\ owner.calls < MaxTaskCalls
    /\ owner.next_id <= MaxTasks
    /\ IF ProjectOwner[project_id] = current_user
       THEN owner' = [owner EXCEPT
                        !.tasks = Put(@, owner.next_id,
                                      [project_id |-> project_id, title |-> title,
                                       assigned_to |-> 0]),
                        !.next_id = @ + 1, !.calls = @ + 1,
                        !.last = TaskCall("create", current_user, owner.next_id, 201, "")]
       ELSE owner' = [owner EXCEPT
                        !.calls = @ + 1,
                        !.last = TaskCall("create", current_user, 0, 404, "Project not found")]
    /\ OwnerFrame

\* get_task
GetTask(current_user, task_id) ==
    /\ owner.calls < MaxTaskCalls
    /\ owner' = [owner EXCEPT
                   !.calls = @ + 1,
                   !.last = IF SelectOwned(owner.tasks, task_id, current_user)
                            THEN TaskCall("get", current_user, task_id, 200, "")
                            ELSE TaskCall("get", current_user, task_id, 404, "Task not found")]
    /\ OwnerFrame

\* update_task; assigned_to = 0 when not given, user 9 does not exist
UpdateTask(current_user, task_id, title, assigned_to) ==
    /\ owner.calls < MaxTaskCalls
    /\ IF ~SelectOwned(owner.tasks, task_id, current_user)
       THEN owner' = [owner EXCEPT
                        !.calls = @ + 1,
                        !.last = TaskCall("update", current_user, task_id, 404,
                                          "Task not found")]
       ELSE IF assigned_to # 0 /\ assigned_to \notin TaskUsers
       THEN owner' = [owner EXCEPT
                        !.calls = @ + 1,
                        !.last = TaskCall("update", current_user, task_id, 400,
                                          "Assigned user not found")]
       ELSE owner' = [owner EXCEPT
                        !.tasks = Put(@, task_id,
                                      [owner.tasks[task_id] EXCEPT
                                         !.title = title,
                                         !.assigned_to = IF assigned_to # 0 THEN assigned_to
                                                         ELSE @]),
                        !.calls = @ + 1,
                        !.last = TaskCall("update", current_user, task_id, 200, "")]
    /\ OwnerFrame

\* delete_task
DeleteTask(current_user, task_id) ==
    /\ owner.calls < MaxTaskCalls
    /\ IF ~SelectOwned(owner.tasks, task_id, current_user)
       THEN owner' = [owner EXCEPT
                        !.calls = @ + 1,
                        !.last = TaskCall("delete", current_user, task_id, 404,
                                          "Task not found")]
       ELSE owner' = [owner EXCEPT
                        !.tasks = Del(@, {task_id}),
                        !.deleted = @ \cup {task_id},
                        !.calls = @ + 1,
                        !.last = TaskCall("delete", current_user, task_id, 204, "")]
    /\ OwnerFrame

OwnerNext ==
    \/ \E u \in TaskUsers, project \in {1, 2} : CreateTask(u, project, "a")
    \/ \E u \in TaskUsers, id \in TaskIds : GetTask(u, id)
    \/ \E u \in TaskUsers, id \in TaskIds, a \in {0, 2, 9} : UpdateTask(u, id, "b", a)
    \/ \E u \in TaskUsers, id \in TaskIds : DeleteTask(u, id)

OwnerSpecInit == Init /\ utc_offset = 0

SpecOwner == OwnerSpecInit /\ [][OwnerNext]_vars

\* the task of the last call existed, in a project of the calling user
LastOwned == owner.last.exists /\ owner.last.project_owner = owner.last.user

\* C24: get_task, update_task and delete_task succeed only on a task that
\* exists in a project of the current user; otherwise they answer 404 "Task
\* not found" and change nothing; after a successful delete_task every later
\* get_task of that id answers 404.
C24_OwnerScoped ==
    /\ owner.last.op \in {"get", "update", "delete"} =>
          /\ owner.last.status < 300 => LastOwned
          /\ ~LastOwned =>
                /\ owner.last.status = 404
                /\ owner.last.detail = "Task not found"
                /\ owner.tasks = owner.last.before
    /\ (owner.last.op = "get" /\ owner.last.was_deleted) => owner.last.status = 404
    /\ owner.deleted \cap DOMAIN owner.tasks = {}

\* the owner deleted a task and a later get_task of its id by the owner was
\* answered 404
C24_Witness ==
    /\ owner.last.op = "get"
    /\ owner.last.was_deleted
    /\ owner.last.user = 1
    /\ owner.last.status = 404
    /\ DOMAIN owner.tasks # {}

\* another user's update_task on an existing task was answered 404
C24_ForeignReached ==
    /\ owner.last.op = "update"
    /\ owner.last.exists
    /\ ~LastOwned
    /\ owner.last.status = 404

(***************************************************************************)
(* Every operation of CacheService, get_or_set and get_stats included.     *)
(***************************************************************************)

\* get_stats(): the snapshot is returned, nothing is written
GetStats ==
    /\ stats_read = <<>>
    /\ stats_read' = << get_stats >>
    /\ UNCHANGED <<cacheVars, keyVars, monVars, dashVars, statusVars, loopVars, storeVars,
                   gosVars, taskVars, resetVars, rl, auth, owner, race>>

StatsKey == <<"product", ":", "1">>

\* operations run, then get_stats() is read
StatsNext ==
    \/ \E ok \in BOOLEAN : stats_read = <<>> /\ Initialize(ok)
    \/ \E f \in BOOLEAN : stats_read = <<>> /\ Get(StatsKey, f)
    \/ \E f \in BOOLEAN : stats_read = <<>> /\ Set(StatsKey, "v1", 0, f)
    \/ \E f \in BOOLEAN : stats_read = <<>> /\ Delete(StatsKey, f)
    \/ \E p \in Patterns, f \in Faults : stats_read = <<>> /\ DeletePattern(p, f)
    \/ \E f \in Faults : stats_read = <<>> /\ ClearAll(f)
    \/ \E f \in BOOLEAN :
          stats_read = <<>> /\ SetMany(Keys, "v1", CACHE_SHORT_TTL + TickStep, f)
    \/ \E gf \in BOOLEAN, sf \in BOOLEAN :
          stats_read = <<>> /\ GetOrSet(StatsKey, "v2", CACHE_SHORT_TTL + TickStep, gf, sf)
    \/ stats_read = <<>> /\ Tick
    \/ GetStats

StatsSpecInit == Init /\ utc_offset = 0

SpecStats == StatsSpecInit /\ [][StatsNext]_vars

StatCounters == { "hits", "misses", "sets", "deletes", "errors" }

\* C25: over any sequence of cache operations, failing or not, none of hits,
\* misses, sets, deletes and errors ever decreases, and get_stats() changes
\* no counter and no cache entry.
C25_CountersMonotonic ==
    [][/\ \A c \in StatCounters : cache_stats'[c] >= cache_stats[c]
       /\ stats_read' # stats_read =>
             UNCHANGED <<cache_stats, local_cache, redis_db>>]_vars

\* a miss filled by get_or_set, a delete and a failing operation have been
\* counted, and get_stats() has reported them
C25_Witness ==
    /\ cache_stats.misses > 0 /\ cache_stats.sets > 0
    /\ cache_stats.deletes > 0 /\ cache_stats.errors > 0
    /\ stats_read # <<>>
    /\ stats_read[1].errors = cache_stats.errors
    /\ stats_read[1].deletes = cache_stats.deletes

(***************************************************************************)
(* SearchService: the query a request builds and the key it is cached      *)
(* under.                                                                  *)
(***************************************************************************)
Queries == { "tv", "tv:", " tv" }

\* request.query.strip().split(), for the queries of Queries
SearchTerms(query) == IF query = " tv" THEN << "tv" >> ELSE << query >>

\* conditions.append(c) under "if present"
Cond(present, c) == IF present THEN << c >> ELSE <<>>

ListOf(o) == IF o = <<>> THEN <<>> ELSE o[1]

OrderBy(sort_by, sort_order) ==
    CASE sort_by = "relevance" -> << "is_featured desc", "rating_average desc",
                                     "sales_count desc", "created_at desc" >>
      [] sort_by = "price" -> IF sort_order = "asc" THEN << "price asc" >> ELSE << "price desc" >>
      [] sort_by = "rating" -> IF sort_order = "asc" THEN << "rating_average asc" >>
                                                      ELSE << "rating_average desc" >>
      [] sort_by = "sales" -> IF sort_order = "asc" THEN << "sales_count asc" >>
                                                     ELSE << "sales_count desc" >>
      [] sort_by = "newest" -> << "created_at desc" >>
      [] sort_by = "oldest" -> << "created_at asc" >>
      [] OTHER -> << "created_at desc" >>

\* The WHERE conditions, in the order they are appended, and the ORDER BY.
_build_search_query(request) ==
    [conditions |->
        Cond(request.query # "" /\ SearchTerms(request.query) # <<>>,
             << "ilike terms", SearchTerms(request.query) >>)
        \o Cond(request.category_id # <<>> /\ request.category_id # <<0>>,
                << "category_id ==", request.category_id >>)
        \o Cond(request.brand # <<>> /\ request.brand # <<"">>,
                << "brand ilike", request.brand >>)
        \o Cond(request.min_price # <<>>, << "price >=", request.min_price >>)
        \o Cond(request.max_price # <<>>, << "price <=", request.max_price >>)
        \o Cond(request.min_rating # <<>>, << "rating_average >=", request.min_rating >>)
        \o Cond(request.in_stock_only, << "stock_quantity > 0", <<>> >>)
        \o Cond(request.featured_only, << "is_featured", <<>> >>)
        \o [i \in 1..Len(ListOf(request.tags)) |-> << "tags.any", << ListOf(request.tags)[i] >> >>]
        \o [i \in 1..Len(ListOf(request.attributes)) |->
               << "attributes ==", ListOf(request.attributes)[i] >>]
        \o << << "is_active", <<>> >> >>,
     order_by |-> OrderBy(request.sort_by, request.sort_order)]

FilterRequests ==
    { [DefaultRequest(q) EXCEPT !.category_id = c, !.brand = b, !.max_price = p,
                                !.sort_by = s] :
        q \in Queries, c \in {<<>>, <<7>>}, b \in {<<>>, <<"acme">>, <<":acme">>},
        p \in {<<>>, <<0>>, <<5>>}, s \in {"relevance", "price"} }

\* two search requests arrive, drawn from FilterRequests
FilterSpecInit ==
    /\ CacheInit /\ MonInit /\ DashInit /\ ExtInit
    /\ utc_offset = 0
    /\ r1 \in FilterRequests
    /\ r2 \in FilterRequests
    /\ key1 = ""
    /\ key2 = ""

FilterNext == CreateCacheKeys

SpecFilterKey == FilterSpecInit /\ [][FilterNext]_vars

\* C26: two search requests that build different queries never get the same
\* cache key, also when query or brand hold the ':' separator.
C26_KeysInjective ==
    (key1 # "" /\ _build_search_query(r1) # _build_search_query(r2)) => key1 # key2

\* no ':' in the free text and no zero price bound
PlainRequest(r) == r.query # "tv:" /\ r.brand # <<":acme">> /\ r.max_price # <<0>>

\* Requests without the separator in free text and without a zero bound are
\* keyed apart whenever their queries differ.
C26_PlainKeysInjective ==
    (key1 # "" /\ PlainRequest(r1) /\ PlainRequest(r2)
        /\ _build_search_query(r1) # _build_search_query(r2)) => key1 # key2

\* The same for requests without a zero price bound: only the separator in
\* the free text is left to make two keys collide.
C26_SeparatorKeysInjective ==
    (key1 # "" /\ r1.max_price # <<0>> /\ r2.max_price # <<0>>
        /\ _build_search_query(r1) # _build_search_query(r2)) => key1 # key2

(***************************************************************************)
(* CacheService: get, set and delete as coroutines.  Each runs up to its   *)
(* await on the Redis client (the command is sent), Redis executes the     *)
(* command, and the coroutine resumes with the reply at a later turn of    *)
(* the event loop; other coroutines run in between.                        *)
(***************************************************************************)
MaxRaceCalls == 4
MaxInFlight == 2

RaceKey == <<"product", ":", "1">>

InFlight == { i \in 1..Len(race.calls) : race.calls[i].pc # "done" }

\* A call of op on RaceKey that has reached pc.  no_set_since: no set of the
\* key was at work when the call started, and none has started since;
\* race.deleted: a delete with no_set_since has returned and no set has
\* started after it.
RaceCall(op, value, ttl, pc) ==
    [op |-> op, value |-> value, ttl |-> ttl, pc |-> pc, reply |-> <<>>, result |-> None,
     concurrent |-> InFlight # {},
     no_set_since |-> \A j \in InFlight : race.calls[j].op # "set",
     started_after_delete |-> race.deleted, returned_after_delete |-> FALSE]

CanStart ==
    /\ initialized /\ redis_client
    /\ Len(race.calls) < MaxRaceCalls
    /\ Cardinality(InFlight) < MaxInFlight

RaceFrame ==
    /\ UNCHANGED <<now, initialized, redis_client, nops, nGets, nReturned, invalidated, last>>
    /\ UNCHANGED <<keyVars, monVars, dashVars, statusVars, loopVars, storeVars,
                   gosVars, taskVars, resetVars, rl, auth, owner, stats_read>>

\* set: the local write, up to "await self.redis_client.setex(...)"
SetStart(value, ttl) ==
    /\ CanStart
    /\ local_cache' = Put(local_cache, RaceKey,
                          [data |-> value, expires_at |-> SetLocalExpiry(EffectiveTtl(ttl))])
    /\ race' = [calls |-> Append([j \in 1..Len(race.calls) |->
                                      [race.calls[j] EXCEPT !.no_set_since = FALSE]],
                                  RaceCall("set", value, EffectiveTtl(ttl), "sent")),
                deleted |-> FALSE]
    /\ UNCHANGED <<redis_db, cache_stats>>
    /\ RaceFrame

\* get: the local lookup; on a local miss, up to "await self.redis_client.get(...)"
GetStart ==
    LET inLocal  == RaceKey \in DOMAIN local_cache
        localHit == inLocal /\ local_cache[RaceKey].expires_at > now
        call     == RaceCall("get", None, 0, "sent")
    IN  /\ CanStart
        /\ IF localHit
           THEN /\ cache_stats' = Bump(cache_stats, "hits")
                /\ local_cache' = local_cache
                /\ race' = [race EXCEPT !.calls = Append(@,
                               [call EXCEPT !.pc = "done",
                                            !.result = local_cache[RaceKey].data,
                                            !.returned_after_delete = race.deleted])]
           ELSE /\ cache_stats' = cache_stats
                /\ local_cache' = Del(local_cache, {RaceKey})
                /\ race' = [race EXCEPT !.calls = Append(@, call)]
        /\ UNCHANGED redis_db
        /\ RaceFrame

\* delete: the local removal, up to "await self.redis_client.delete(...)"
DeleteStart ==
    /\ CanStart
    /\ local_cache' = Del(local_cache, {RaceKey})
    /\ race' = [race EXCEPT !.calls = Append(@, RaceCall("delete", None, 0, "sent"))]
    /\ UNCHANGED <<redis_db, cache_stats>>
    /\ RaceFrame

\* Redis executes the command of call i
RedisExecutes(i) ==
    LET call == race.calls[i]
        fk   == _get_cache_key(RaceKey)
    IN  /\ call.pc = "sent"
        /\ redis_db' = CASE call.op = "set" ->
                                RedisSetex(redis_db, fk, call.ttl, _serialize(call.value))
                         [] call.op = "delete" -> Del(redis_db, {fk})
                         [] OTHER -> redis_db
        /\ race' = [calls |-> [race.calls EXCEPT
                                  ![i].pc = "replied",
                                  ![i].reply = IF call.op = "get" /\ RedisLive(fk)
                                               THEN << RedisGet(fk) >> ELSE <<>>],
                    deleted |-> race.deleted /\ call.op # "set"]
        /\ UNCHANGED <<local_cache, cache_stats>>
        /\ RaceFrame

\* call i resumes after its await and returns
Resume(i) ==
    LET call == race.calls[i]
        data == _deserialize(call.reply[1])
    IN  /\ call.pc = "replied"
        /\ CASE call.op = "set" ->
                  /\ cache_stats' = Bump(cache_stats, "sets")
                  /\ local_cache' = local_cache
                  /\ race' = [calls |-> [race.calls EXCEPT ![i].pc = "done",
                                                           ![i].result = "True"],
                              deleted |-> FALSE]
             [] call.op = "delete" ->
                  /\ cache_stats' = Bump(cache_stats, "deletes")
                  /\ local_cache' = local_cache
                  /\ race' = [calls |-> [race.calls EXCEPT ![i].pc = "done",
                                                           ![i].result = "True"],
                              deleted |-> call.no_set_since]
             [] call.op = "get" /\ call.reply # <<>> ->
                  /\ cache_stats' = Bump(cache_stats, "hits")
                  /\ local_cache' = Put(local_cache, RaceKey,
                                        [data |-> data, expires_at |-> RepopulateExpiry])
                  /\ race' = [race EXCEPT !.calls[i].pc = "done",
                                          !.calls[i].result = data,
                                          !.calls[i].returned_after_delete = race.deleted]
             [] call.op = "get" /\ call.reply = <<>> ->
                  /\ cache_stats' = Bump(cache_stats, "misses")
                  /\ local_cache' = local_cache
                  /\ race' = [race EXCEPT !.calls[i].pc = "done",
                                          !.calls[i].returned_after_delete = race.deleted]
        /\ UNCHANGED redis_db
        /\ RaceFrame

RaceNext ==
    \/ Initialize(TRUE)
    \/ \E v \in Values : SetStart(v, 0)
    \/ GetStart
    \/ DeleteStart
    \/ \E i \in 1..Len(race.calls) : RedisExecutes(i)
    \/ \E i \in 1..Len(race.calls) : Resume(i)
    \/ Tick

RaceSpecInit == Init /\ utc_offset = 0

SpecRace == RaceSpecInit /\ [][RaceNext]_vars

\* exactly two calls were made, both set, with different values, and both
\* have returned
TwoSetsDone ==
    /\ Len(race.calls) = 2
    /\ \A i \in 1..2 : race.calls[i].op = "set" /\ race.calls[i].pc = "done"
    /\ race.calls[1].value # race.calls[2].value

TiersAgree ==
    /\ RaceKey \in DOMAIN local_cache
    /\ _get_cache_key(RaceKey) \in DOMAIN redis_db
    /\ local_cache[RaceKey].data = _deserialize(redis_db[_get_cache_key(RaceKey)].data)

\* C27: after two set calls on one key with different values, concurrent or
\* not, have both returned, the local tier and Redis hold the same value.
C27_WritesConverge == TwoSetsDone => TiersAgree

\* Two set calls that did not overlap leave both tiers with the second value.
C27_SequentialWritesConverge ==
    (TwoSetsDone /\ ~race.calls[2].concurrent) =>
        (TiersAgree /\ local_cache[RaceKey].data = race.calls[2].value)

\* C28: a get that returns after a delete of the key has returned, with no
\* set of the key at work since, returns None; this includes a get that was
\* waiting for Redis while the delete ran.
C28_DeleteNotUndone ==
    \A i \in 1..Len(race.calls) :
        (race.calls[i].op = "get" /\ race.calls[i].pc = "done"
            /\ race.calls[i].returned_after_delete) => race.calls[i].result = None

\* The same for the gets that were called after the delete had returned.
C28_LaterGetSeesDelete ==
    \A i \in 1..Len(race.calls) :
        (race.calls[i].op = "get" /\ race.calls[i].pc = "done"
            /\ race.calls[i].started_after_delete
            /\ race.calls[i].returned_after_delete) => race.calls[i].result = None

\* Without overlapping calls no get returns a value after a delete.
C28_SequentialDeleteHolds ==
    (\A j \in 1..Len(race.calls) : ~race.calls[j].concurrent) => C28_DeleteNotUndone

\* a / b = c / d for fractions <<a, b>> and <<c, d>>
SameRatio(f, g) == f[1] * g[2] = g[1] * f[2]

\* C29: every published error rate equals errors / total_requests of its
\* endpoint's statistics, and an endpoint without an error has no entry.
C29_ErrorRateCurrent ==
    /\ \A e \in DOMAIN error_rates :
          /\ e \in DOMAIN endpoint_stats
          /\ SameRatio(error_rates[e],
                       << endpoint_stats[e].errors, endpoint_stats[e].total_requests >>)
    /\ \A e \in DOMAIN endpoint_stats :
          endpoint_stats[e].errors = 0 => e \notin DOMAIN error_rates

\* The published rate is the one computed at the endpoint's latest error:
\* it is never below the current errors / total_requests, and only
\* endpoints with an error have an entry.
C29_ErrorRateAtLastError ==
    \A e \in DOMAIN error_rates :
        /\ e \in DOMAIN endpoint_stats
        /\ endpoint_stats[e].errors > 0
        /\ error_rates[e][1] = endpoint_stats[e].errors
        /\ error_rates[e][2] <= endpoint_stats[e].total_requests

(***************************************************************************)
(* PerformanceMonitor and the dashboard: the per-cache-type hit rates.     *)
(***************************************************************************)

\* requests (served from the cache or not), cache hits and resets are
\* recorded, then the update cycle runs once
HitRateNext ==
    \/ \E e \in Endpoints, r \in {Cached, SlowQuery} :
          /\ dashboard_data.last_update = <<>>
          /\ nrec < DashMaxRecords
          /\ RecordRequest(e, r[1], 200, r[2], r[3], r[4])
    \/ \E c \in CacheTypes :
          dashboard_data.last_update = <<>> /\ RecordCacheHit(c)
    \/ dashboard_data.last_update = <<>> /\ ResetMetrics
    \/ dashboard_data.last_update = <<>> /\ UpdateDashboardData(TRUE, 80, 80)

HitRateSpecInit == Init /\ utc_offset = 0

SpecHitRate == HitRateSpecInit /\ [][HitRateNext]_vars

LowHitRateAlert(cache_type) ==
    \E i \in 1..Len(dashboard_data.alerts) :
        /\ dashboard_data.alerts[i].message = "Low cache hit rate for"
        /\ dashboard_data.alerts[i].subject = cache_type

\* the published rates against the recorded hits
HitRatesPublished ==
    LET rates == Snapshot.cache_hit_rates
        total == SumValues(mon_cache_stats)
    IN  /\ DOMAIN rates = DOMAIN mon_cache_stats
        /\ \A t \in DOMAIN rates :
              /\ rates[t][2] = total
              /\ rates[t][1] = mon_cache_stats[t] * 100
              /\ LowHitRateAlert(t) <=> 2 * mon_cache_stats[t] < total
        /\ total > 0 => SumValues([t \in DOMAIN rates |-> rates[t][1]]) = 100 * total
        /\ \A t \in CacheTypes \ DOMAIN rates : ~LowHitRateAlert(t)

\* a request is recorded, served from the cache or not: no rate changes
RequestKeepsRates ==
    nrec' # nrec => CacheHitRates' = CacheHitRates

\* C30: each published cache hit rate is the type's share of all recorded
\* hits in percent, the rates sum to 100 once a hit is recorded, recording a
\* request that missed the cache lowers no rate, and the low-hit-rate alert
\* names a type exactly when it has fewer than half of the recorded hits.
C30_HitRateShare ==
    /\ [](Updated => HitRatesPublished)
    /\ [][RequestKeepsRates]_vars

\* both types have hits, one of them fewer than half, a request that missed
\* the cache was recorded, and the update has run
C30_Witness ==
    /\ Updated
    /\ Count(mon_cache_stats, "product_search") = 2
    /\ Count(mon_cache_stats, "get_product") = 1
    /\ LowHitRateAlert("get_product") /\ ~LowHitRateAlert("product_search")
    /\ \E e \in DOMAIN endpoint_stats :
          endpoint_stats[e].cache_hits < endpoint_stats[e].total_requests

\* both types have exactly half of the hits: no alert
C30_HalfReached ==
    /\ Updated
    /\ Count(mon_cache_stats, "product_search") = 1
    /\ Count(mon_cache_stats, "get_product") = 1
    /\ \A t \in CacheTypes : ~LowHitRateAlert(t)

\* C8: the metrics buffer never holds more than its capacity, keeps insertion
\* order, and after capacity + K record_request calls with no cleanup or reset
\* in between holds exactly the capacity most recent observations.
C8_RingBuffer ==
    /\ Len(metrics) <= Capacity
    /\ \A i \in 1..Len(metrics) - 1 : metrics[i].id < metrics[i + 1].id
    /\ sinceRebuild >= Capacity =>
          /\ Len(metrics) = Capacity
          /\ \A i \in 1..Capacity : metrics[i].id = nrec - Capacity + i

C8_Witness ==
    /\ sinceRebuild = Capacity + 1
    /\ Len(metrics) = Capacity
    /\ metrics[1].id = nrec - Capacity + 1
====
